---- MODULE Spec2Model ----
(***************************************************************************)
(* service-marketplace: the sync-job queue (SyncJobRepository and the      *)
(* poller that drives it), the marketplace connections written by the      *)
(* OAuth callbacks (ConnectionService / ConnectionRepository) and the      *)
(* Shopee webhook receiver (WebhookHandler).                               *)
(***************************************************************************)
EXTENDS Integers, Sequences, FiniteSets, TLC

\* ------------------------------------------------------------------ bounds
MaxJobs == 1          \* jobs ever queued (ids 1..MaxJobs, never reused)
NumWorkers == 2       \* concurrent pollers
MaxTime == 1          \* the clock runs 0..MaxTime (one unit = one hour)
MaxLimit == 2         \* GetPendingJobs is called with limit in 1..MaxLimit
MaxRows == 3          \* rows of a job table handed to GetPendingJobs directly
AttemptsCap == 3      \* direct MarkProcessing calls stop at this many attempts
NumCallers == 2       \* concurrent requests to the ConnectionService
MaxShops == 1         \* shop ids 1..MaxShops on each platform
MaxTokens == 1        \* token pairs 1..MaxTokens a marketplace issues
MaxRequests == 2      \* requests the ConnectionHandler accepts
MaxMappings == 2      \* product mappings ever inserted (ids 1..MaxMappings)
MaxProducts == 2      \* internal products 1..MaxProducts, external "1"..
MaxConnections == 2   \* connections ever inserted, where connections are deleted
MaxRefs == 2          \* rows ever inserted into the referencing tables
MaxStates == 1        \* OAuth states GetAuthURL generates per platform
MaxStored == 2        \* rows of a job table handed to MarkProcessing / DeleteOldCompleted
MaxSaving == 1        \* ProductMappingRepository.Update calls between their two statements

\* ------------------------------------------------------ program constants
DefaultAttempts == 0      \* gorm:"default:0"
DefaultMaxAttempts == 3   \* gorm:"default:3"

JobStatusPending == "pending"
JobStatusProcessing == "processing"
JobStatusCompleted == "completed"
JobStatusFailed == "failed"
JobStatuses ==
  {JobStatusPending, JobStatusProcessing, JobStatusCompleted, JobStatusFailed}

NoTime == -1              \* a NULL timestamp / a zero time.Time
Workers == 1..NumWorkers
JobIds == 1..MaxJobs
Times == 0..MaxTime
Limits == 1..MaxLimit

VARIABLES
  jobs,       \* marketplace.sync_jobs: id -> row
  nextJob,    \* the next fresh job id (gen_random_uuid never repeats)
  now,        \* time.Now() / CURRENT_TIMESTAMP
  pc,         \* per worker: "idle", "fetched" (holds a batch), "running"
  batch,      \* per worker: the ids GetPendingJobs returned, not yet finished
  purged,     \* history: the last observed DeleteOldCompleted call, its
              \* argument and the ids it deleted
  asked,      \* the limit of the last direct GetPendingJobs call (0: none yet)
  result,     \* what that call returned
  cfg,        \* ConnectionServiceConfig: EncryptionKey, Shopee / TikTok set up
  conns,      \* marketplace.connections: id -> row
  nextConn,   \* the next fresh connection id
  local,      \* per request: where it is in its handler, and its local variables
  resp,       \* what a handler returned last
  requests,   \* how many requests the ConnectionHandler has accepted
  hookKey,    \* WebhookHandler.shopeeKey
  tiktokSecret, \* WebhookHandler.tiktokSecret
  request,    \* the webhook request handled last
  handler,    \* which HandleShopeeWebhook handled it
  reply,      \* its HTTP reply
  event,      \* the order event it handed to HandleShopeeOrderEvent, if any
  hookLog,    \* the warning it logged, if any
  mappings,   \* marketplace.product_mappings: id -> row
  nextMapping, \* the id the next inserted mapping gets
  mapErr,     \* whether the last ProductMappingRepository call returned an error
  saving,     \* the Updates whose UPDATE matched no row and whose INSERT is to come
  rows,       \* the rows of the tables that reference connections
  nextRow,    \* the id the next such row gets
  cascaded,   \* how many of them the last DELETE of a connection removed
  issued,     \* the OAuth states GetAuthURL has returned
  query       \* per request: the query of the callback URL it was sent to

jobVars == <<jobs, nextJob, now, pc, batch, purged>>
queryVars == <<asked, result>>
connVars == <<cfg, conns, nextConn, local, resp, requests>>
hookVars == <<hookKey, tiktokSecret, request, handler, reply, event, hookLog>>
mapVars == <<mappings, nextMapping, mapErr, saving>>
schemaVars == <<rows, nextRow, cascaded>>
oauthVars == <<issued, query>>
vars == <<jobs, nextJob, now, pc, batch, purged, asked, result,
          cfg, conns, nextConn, local, resp, requests,
          hookKey, tiktokSecret, request, handler, reply, event, hookLog,
          mappings, nextMapping, mapErr, saving, rows, nextRow, cascaded,
          issued, query>>

\* ------------------------------------------------------- the SyncJob model
\* A row of marketplace.sync_jobs. updated_at is a column of the table only
\* (the SyncJob struct has no such field): the INSERT leaves it to its default
\* NOW(), and trigger update_sync_jobs_updated_at sets it to NOW() on every
\* UPDATE of the row. created_at, written by the INSERT and by no later
\* statement of the repository's marking methods, is left out.
\* NewSyncJob without the column defaults: zero values are stored as given.
NewSyncJobNoDefaults(status, attempts, maxAttempts, scheduledAt, t) ==
  [ status        |-> status,
    attempts      |-> attempts,
    max_attempts  |-> maxAttempts,
    scheduled_at  |-> scheduledAt,
    started_at    |-> NoTime,
    completed_at  |-> NoTime,
    error_message |-> "",
    payload       |-> "{}",
    updated_at    |-> t ]

\* A row as Create stores it: a zero-valued Status, Attempts, MaxAttempts or
\* ScheduledAt takes the column default, and updated_at its default NOW().
NewSyncJob(status, attempts, maxAttempts, scheduledAt, t) ==
  [ status        |-> IF status = "" THEN JobStatusPending ELSE status,
    attempts      |-> IF attempts = 0 THEN DefaultAttempts ELSE attempts,
    max_attempts  |-> IF maxAttempts = 0 THEN DefaultMaxAttempts ELSE maxAttempts,
    scheduled_at  |-> IF scheduledAt = NoTime THEN t ELSE scheduledAt,
    started_at    |-> NoTime,
    completed_at  |-> NoTime,
    error_message |-> "",
    payload       |-> "{}",
    updated_at    |-> t ]

\* SyncJobRepository.Create: INSERT of one row under a fresh id.
Create(J, id, job) ==
  [i \in DOMAIN J \cup {id} |-> IF i = id THEN job ELSE J[i]]

\* SyncJobRepository.Update: Save writes every column of the struct to the row
\* with its id, zero values too, and the table's trigger stamps updated_at;
\* when that row is gone the struct is inserted, and takes the column defaults
\* like any INSERT (status, attempts, max_attempts, scheduled_at, updated_at).
UpdateJob(J, id, job, t) ==
  IF id \in DOMAIN J
  THEN [J EXCEPT ![id] = [job EXCEPT !.updated_at = t]]
  ELSE Create(J, id, [job EXCEPT
         !.status = IF @ = "" THEN JobStatusPending ELSE @,
         !.attempts = IF @ = 0 THEN DefaultAttempts ELSE @,
         !.max_attempts = IF @ = 0 THEN DefaultMaxAttempts ELSE @,
         !.scheduled_at = IF @ = NoTime THEN t ELSE @,
         !.updated_at = t])

\* Eligible without the attempts < max_attempts condition.
EligibleAnyAttempts(J, t) ==
  { i \in DOMAIN J : /\ J[i].status = JobStatusPending
                     /\ J[i].scheduled_at <= t }

\* WHERE status = pending AND scheduled_at <= now AND attempts < max_attempts
Eligible(J, t) ==
  { i \in DOMAIN J : /\ J[i].status = JobStatusPending
                     /\ J[i].scheduled_at <= t
                     /\ J[i].attempts < J[i].max_attempts }

\* ORDER BY scheduled_at ASC: every ordering of the rows the database may
\* produce (rows with equal scheduled_at come in any order).
OrderByScheduledAt(J, S) ==
  { s \in [1..Cardinality(S) -> S] :
      /\ \A a, b \in 1..Cardinality(S) : a # b => s[a] # s[b]
      /\ \A a, b \in 1..Cardinality(S) :
           a < b => J[s[a]].scheduled_at <= J[s[b]].scheduled_at }

\* LIMIT n
Limit(s, n) == SubSeq(s, 1, IF Len(s) < n THEN Len(s) ELSE n)

\* SyncJobRepository.GetPendingJobs: the set of results the query may return.
GetPendingJobs(J, t, limit) ==
  { Limit(s, limit) : s \in OrderByScheduledAt(J, Eligible(J, t)) }

\* SyncJobRepository.GetFailedJobs (for one connection; the model has one):
\* WHERE status = failed AND attempts < max_attempts
GetFailedJobs(J) ==
  { i \in DOMAIN J : J[i].status = JobStatusFailed
                     /\ J[i].attempts < J[i].max_attempts }

\* MarkProcessing as a compare-and-set: only a pending row is taken.
MarkProcessingIfPending(J, id, t) ==
  IF id \in DOMAIN J /\ J[id].status = JobStatusPending
  THEN [J EXCEPT ![id].status = JobStatusProcessing,
                 ![id].started_at = t,
                 ![id].attempts = @ + 1,
                 ![id].updated_at = t]
  ELSE J

\* MarkProcessing that starts the job afresh: outcome of the last run cleared.
MarkProcessingAfresh(J, id, t) ==
  IF id \in DOMAIN J
  THEN [J EXCEPT ![id].status = JobStatusProcessing,
                 ![id].started_at = t,
                 ![id].attempts = @ + 1,
                 ![id].completed_at = NoTime,
                 ![id].error_message = "",
                 ![id].updated_at = t]
  ELSE J

\* SyncJobRepository.MarkProcessing: UPDATE SET status, started_at, attempts =
\* attempts + 1 WHERE id = ?; the trigger sets updated_at of the updated row.
\* No row, no change.
MarkProcessing(J, id, t) ==
  IF id \in DOMAIN J
  THEN [J EXCEPT ![id].status = JobStatusProcessing,
                 ![id].started_at = t,
                 ![id].attempts = @ + 1,
                 ![id].updated_at = t]
  ELSE J

\* MarkCompleted that also clears the attempts counter.
MarkCompletedResetAttempts(J, id, t) ==
  IF id \in DOMAIN J
  THEN [J EXCEPT ![id].status = JobStatusCompleted,
                 ![id].completed_at = t,
                 ![id].attempts = 0,
                 ![id].updated_at = t]
  ELSE J

\* SyncJobRepository.MarkCompleted: UPDATE SET status, completed_at WHERE
\* id = ?; the trigger sets updated_at of the updated row.
MarkCompleted(J, id, t) ==
  IF id \in DOMAIN J
  THEN [J EXCEPT ![id].status = JobStatusCompleted,
                 ![id].completed_at = t,
                 ![id].updated_at = t]
  ELSE J

\* MarkFailed that records the message and leaves the status alone.
MarkFailedMessageOnly(J, id, msg, t) ==
  IF id \in DOMAIN J
  THEN [J EXCEPT ![id].error_message = msg,
                 ![id].updated_at = t]
  ELSE J

\* SyncJobRepository.MarkFailed: UPDATE SET status, error_message WHERE
\* id = ?; the trigger sets updated_at of the updated row.
MarkFailed(J, id, msg, t) ==
  IF id \in DOMAIN J
  THEN [J EXCEPT ![id].status = JobStatusFailed,
                 ![id].error_message = msg,
                 ![id].updated_at = t]
  ELSE J

\* SyncJobRepository.Delete
Delete(J, id) == [i \in DOMAIN J \ {id} |-> J[i]]

\* DeleteOldCompleted that forgets the window: every completed row goes,
\* whenever it was completed.
DeleteAllCompleted(J, t, olderThanHours) ==
  LET old == { i \in DOMAIN J : /\ J[i].status = JobStatusCompleted
                                /\ J[i].completed_at # NoTime }
  IN  [i \in DOMAIN J \ old |-> J[i]]

\* SyncJobRepository.DeleteOldCompleted: cutoff = now - olderThanHours;
\* DELETE WHERE status = completed AND completed_at < cutoff (a NULL
\* completed_at compares as unknown and is kept).
DeleteOldCompleted(J, t, olderThanHours) ==
  LET cutoff == t - olderThanHours
      old == { i \in DOMAIN J : /\ J[i].status = JobStatusCompleted
                                /\ J[i].completed_at # NoTime
                                /\ J[i].completed_at < cutoff }
  IN  [i \in DOMAIN J \ old |-> J[i]]

\* ------------------------------------------------- the Connection model
Callers == 1..NumCallers
ShopIds == 1..MaxShops
TokenIds == 1..MaxTokens

\* The tokens a marketplace issues, in the clear.
AccessTokenOf(k) == [token |-> "access", n |-> k]
RefreshTokenOf(k) == [token |-> "refresh", n |-> k]
PlainTokens == { AccessTokenOf(k) : k \in TokenIds } \cup { RefreshTokenOf(k) : k \in TokenIds }

\* utils.Encryptor (AES-256): a ciphertext is not the plaintext, and Decrypt
\* undoes Encrypt and fails on anything that is no ciphertext.
ValidKey == "0123456789abcdef0123456789abcdef"
NewEncryptor(key) == IF key = ValidKey THEN "encryptor" ELSE "nil"
Encrypt(t) == [cipher |-> t]
IsCiphertext(x) == DOMAIN x = {"cipher"}
Decrypt(x) == IF IsCiphertext(x) THEN [ok |-> TRUE, plain |-> x.cipher]
              ELSE [ok |-> FALSE]

\* NewConnectionService: no encryptor without a key, or when NewEncryptor fails.
EncryptorOf(c) ==
  IF c.EncryptionKey # "" THEN NewEncryptor(c.EncryptionKey) ELSE "nil"

\* "Encrypt tokens": the token as the service stores it.
Sealed(c, t) == IF EncryptorOf(c) # "nil" THEN Encrypt(t) ELSE t

\* fmt.Sprintf("%d", shopID)
ShopIDString(n) == ToString(n)

\* tokenResp.ExpiresAt = time.Now() + expire_in (one time unit)
ExpiresAt(t) == t + 1

\* ToResponse that also copies the tokens.
ToResponseWithTokens(id, c) ==
  [ id |-> id, platform |-> c.platform, shop_id |-> c.shop_id,
    shop_name |-> c.shop_name, access_token |-> c.access_token,
    refresh_token |-> c.refresh_token,
    token_expires_at |-> c.token_expires_at, is_active |-> c.is_active,
    settings |-> c.settings, created_at |-> c.created_at,
    updated_at |-> c.updated_at ]

\* Connection.ToResponse
ToResponse(id, c) ==
  [ id |-> id, platform |-> c.platform, shop_id |-> c.shop_id,
    shop_name |-> c.shop_name,
    token_expires_at |-> c.token_expires_at, is_active |-> c.is_active,
    settings |-> c.settings, created_at |-> c.created_at,
    updated_at |-> c.updated_at ]

\* A lookup by shop id alone, whatever the platform.
GetByShopID(C, platform, shop) ==
  LET m == { i \in DOMAIN C : C[i].shop_id = shop }
  IN  IF m = {} THEN 0 ELSE CHOOSE i \in m : \A j \in m : i <= j

\* ConnectionRepository.GetByPlatformAndShopID: the id of the first such row, 0
\* when there is none.
GetByPlatformAndShopID(C, platform, shop) ==
  LET m == { i \in DOMAIN C : C[i].platform = platform /\ C[i].shop_id = shop }
  IN  IF m = {} THEN 0 ELSE CHOOSE i \in m : \A j \in m : i <= j

\* CONSTRAINT unique_platform_shop UNIQUE (platform, shop_id)
UniqueViolation(C, id, row) ==
  \E j \in DOMAIN C \ {id} :
    C[j].platform = row.platform /\ C[j].shop_id = row.shop_id

\* An INSERT that the table's constraints do not check.
InsertUnchecked(C, id, row) ==
  [i \in DOMAIN C \cup {id} |-> IF i = id THEN row ELSE C[i]]

\* The struct as gorm's Create sends it: a zero-valued field with a default
\* tag takes the default, so IsActive false (default:true) is stored as true.
WithDefaults(row) == [row EXCEPT !.is_active = TRUE]

\* ConnectionRepository.Create: INSERT; refused on a unique violation.
Insert(C, id, row) ==
  IF UniqueViolation(C, id, row) THEN C
  ELSE [i \in DOMAIN C \cup {id} |-> IF i = id THEN WithDefaults(row) ELSE C[i]]

\* ConnectionRepository.Update: Save writes every column of the struct to the
\* row with its id; when that row is gone it falls back to Create, column
\* defaults included.
Save(C, id, row, t) ==
  IF id \in DOMAIN C
  THEN IF UniqueViolation(C, id, row) THEN C
       ELSE [C EXCEPT ![id] = [row EXCEPT !.updated_at = t]]
  ELSE Insert(C, id, [row EXCEPT !.updated_at = t])

\* ConnectionRepository.UpdateTokens: UPDATE of the three token columns.
UpdateTokens(C, id, accessToken, refreshToken, expiresAt, t) ==
  IF id \in DOMAIN C
  THEN [C EXCEPT ![id].access_token = accessToken,
                 ![id].refresh_token = refreshToken,
                 ![id].token_expires_at = expiresAt,
                 ![id].updated_at = t]
  ELSE C

\* ORDER BY created_at DESC: every ordering the database may produce.
OrderByCreatedAtDesc(C, S) ==
  { s \in [1..Cardinality(S) -> S] :
      /\ \A a, b \in 1..Cardinality(S) : a # b => s[a] # s[b]
      /\ \A a, b \in 1..Cardinality(S) :
           a < b => C[s[a]].created_at >= C[s[b]].created_at }

Responses(C, s) == [k \in 1..Len(s) |-> ToResponse(s[k], C[s[k]])]

\* ConnectionService.GetAllConnections / GetActiveConnections / GetConnection
GetAllConnections(C) ==
  { Responses(C, s) : s \in OrderByCreatedAtDesc(C, DOMAIN C) }
GetActiveConnections(C) ==
  { Responses(C, s) :
      s \in OrderByCreatedAtDesc(C, { i \in DOMAIN C : C[i].is_active }) }
GetConnection(C, id) ==
  IF id \in DOMAIN C THEN [kind |-> "ok", connection |-> ToResponse(id, C[id])]
  ELSE [kind |-> "error", message |-> "connection not found"]

\* A result row of a repository query: the models.Connection struct.
ConnectionOf(C, i) == [id |-> i, row |-> C[i]]

\* A query without ORDER BY: the rows come in any order.
AnyOrder(C, S) ==
  { [k \in 1..Cardinality(S) |-> ConnectionOf(C, s[k])] :
      s \in { q \in [1..Cardinality(S) -> S] :
                \A a, b \in 1..Cardinality(S) : a # b => q[a] # q[b] } }

\* ConnectionRepository.GetActiveConnectionsByPlatform:
\* WHERE platform = ? AND is_active = true ORDER BY created_at DESC
GetActiveConnectionsByPlatform(C, platform) ==
  { [k \in 1..Len(s) |-> ConnectionOf(C, s[k])] :
      s \in OrderByCreatedAtDesc(C, { i \in DOMAIN C : /\ C[i].platform = platform
                                                       /\ C[i].is_active }) }

\* The token-refresh query without its is_active condition.
GetConnectionsWithExpiringToken(C, t, withinMinutes) ==
  AnyOrder(C, { i \in DOMAIN C : C[i].token_expires_at <= t + withinMinutes })

\* ConnectionRepository.GetConnectionsNeedingTokenRefresh:
\* WHERE is_active = true AND token_expires_at <= NOW() + withinMinutes minutes
GetConnectionsNeedingTokenRefresh(C, t, withinMinutes) ==
  AnyOrder(C, { i \in DOMAIN C : /\ C[i].is_active
                                 /\ C[i].token_expires_at <= t + withinMinutes })

\* ConnectionRepository.Deactivate: UPDATE ... SET is_active = false (and
\* updated_at) WHERE id = ?; no row, no change and no error.
Deactivate(C, id, t) ==
  IF id \in DOMAIN C
  THEN [C EXCEPT ![id].is_active = FALSE, ![id].updated_at = t]
  ELSE C

\* s.shopeeAuth / s.tiktokAuth is set
Configured(c, platform) ==
  IF platform = "shopee" THEN c.Shopee ELSE c.TikTok

Idle == [pc |-> "idle"]
NoResponse == [kind |-> "none"]
Failed(msg) == [kind |-> "error", message |-> msg]

\* ---------------------------------------------------- the webhook model
\* A request body as json.Unmarshal sees it: whether it parses, and the fields
\* the handler reads. The empty body does not parse.
EmptyBody ==
  [json |-> FALSE, push_verification_code |-> "", shop_id |-> 0,
   ordersn |-> "", status |-> ""]
Bodies ==
  {EmptyBody} \cup
  [ json : {TRUE}, push_verification_code : {"", "verify-me"},
    shop_id : ShopIds, ordersn : {"", "SN1"}, status : {"PAID"} ]

PartnerKey == "partner-key"
OtherKey == "other-key"

\* A header value: absent (""), a string that is no HMAC, or a hex HMAC.
NoHeader == [kind |-> "", key |-> "", of |-> EmptyBody]
Garbage == [kind |-> "garbage", key |-> "", of |-> EmptyBody]

\* hex(HMAC-SHA256(key, body)): distinct keys or bodies give distinct values.
HmacHex(key, body) == [kind |-> "hmac", key |-> key, of |-> body]

\* The header values a sender may attach to body b.
Headers(b) ==
  {NoHeader, Garbage, HmacHex(PartnerKey, b), HmacHex(OtherKey, b),
   HmacHex(PartnerKey, EmptyBody)}

Requests ==
  UNION { [ body : {b}, Authorization : Headers(b), ShopeeHmacSha256 : Headers(b) ] :
          b \in Bodies }

\* WebhookHandler.verifyShopeeSignature
verifyShopeeSignature(key, body, signature) ==
  IF signature = NoHeader THEN FALSE
  ELSE signature = HmacHex(key, body)

\* go h.orderService.HandleShopeeOrderEvent(event.ShopID, OrderSN, Status)
HandleShopeeOrderEvent(body) ==
  [shop_id |-> body.shop_id, ordersn |-> body.ordersn, status |-> body.status]

\* A TikTok request body as json.Unmarshal sees it.
EmptyTikTokBody ==
  [json |-> FALSE, type |-> "", shop_id |-> "", order_id |-> "", order_status |-> 0]
TikTokBodies ==
  {EmptyTikTokBody} \cup
  [ json : {TRUE}, type : {"ORDER_STATUS_CHANGE", "PRODUCT_STATUS_CHANGE"},
    shop_id : {ShopIDString(n) : n \in ShopIds}, order_id : {"", "O1"},
    order_status : {111, 112} ]

AppSecret == "app-secret"

\* The X-Tts-Signature values a sender may attach to body b.
TikTokHeaders(b) ==
  {NoHeader, Garbage, HmacHex(AppSecret, b), HmacHex(OtherKey, b),
   HmacHex(AppSecret, EmptyTikTokBody)}

TikTokRequests ==
  UNION { [ body : {b}, XTtsSignature : TikTokHeaders(b) ] : b \in TikTokBodies }

\* A verifyTikTokSignature that takes any header that is present.
verifyTikTokSignatureAnyHeader(secret, body, signature) ==
  signature # NoHeader

\* WebhookHandler.verifyTikTokSignature
verifyTikTokSignature(secret, body, signature) ==
  IF signature = NoHeader THEN FALSE
  ELSE signature = HmacHex(secret, body)

\* go h.orderService.HandleTikTokOrderEvent(event.ShopID, OrderID, OrderStatus)
HandleTikTokOrderEvent(body) ==
  [shop_id |-> body.shop_id, order_id |-> body.order_id,
   order_status |-> body.order_status]
NoTikTokEvent == [shop_id |-> "", order_id |-> "", order_status |-> 0]

\* ------------------------------------------- the product mapping model
Products == 1..MaxProducts
ExternalProductIDs == { ToString(n) : n \in Products }
SyncStatusSynced == "synced"
SyncStatusError == "error"

\* The ProductMapping struct a caller hands to Create; sync_status takes its
\* column default.
NewProductMapping(connectionID, internal, external) ==
  [ connection_id |-> connectionID, internal_product_id |-> internal,
    external_product_id |-> external, sync_status |-> SyncStatusSynced,
    sync_error |-> "" ]

\* The table's constraints without unique_connection_external_product.
MappingViolationInternalOnly(M, C, id, row) ==
  \/ row.connection_id \notin DOMAIN C
  \/ \E j \in DOMAIN M \ {id} :
       /\ M[j].connection_id = row.connection_id
       /\ M[j].internal_product_id = row.internal_product_id

\* connection_id REFERENCES connections(id), unique_connection_internal_product
\* and unique_connection_external_product: whether storing row under id in
\* table M breaks one of them, C being the connections table.
MappingViolation(M, C, id, row) ==
  \/ row.connection_id \notin DOMAIN C
  \/ \E j \in DOMAIN M \ {id} :
       /\ M[j].connection_id = row.connection_id
       /\ \/ M[j].internal_product_id = row.internal_product_id
          \/ M[j].external_product_id = row.external_product_id

\* One row written under id.
PutMapping(M, id, row) ==
  [i \in DOMAIN M \cup {id} |-> IF i = id THEN row ELSE M[i]]

\* ProductMappingRepository.Create and CreateBatch: one INSERT of the items, ids
\* first, first + 1, ...; it stores all of them or, on a violation, none.
RECURSIVE InsertMappings(_, _, _, _)
InsertMappings(M, C, first, items) ==
  IF items = << >> THEN [err |-> FALSE, table |-> M]
  ELSE IF MappingViolation(M, C, first, Head(items))
       THEN [err |-> TRUE, table |-> M]
       ELSE InsertMappings(PutMapping(M, first, Head(items)), C, first + 1, Tail(items))

CreateInBatches(M, C, first, items) ==
  LET r == InsertMappings(M, C, first, items)
  IN  IF r.err THEN [err |-> TRUE, table |-> M] ELSE r

\* ProductMappingRepository.Update, first statement of Save: UPDATE of every
\* column of the struct WHERE id = ?. A row that is not there is not an error:
\* no row is affected.
UpdateMapping(M, C, id, row) ==
  IF id \notin DOMAIN M THEN [err |-> FALSE, affected |-> 0, table |-> M]
  ELSE IF MappingViolation(M, C, id, row)
       THEN [err |-> TRUE, affected |-> 0, table |-> M]
       ELSE [err |-> FALSE, affected |-> 1, table |-> PutMapping(M, id, row)]

\* ProductMappingRepository.Update, second statement of Save, run when the
\* first affected no row: INSERT ... ON CONFLICT (id) DO UPDATE of every
\* column; the other constraints refuse it as they refuse any INSERT.
UpsertMapping(M, C, id, row) ==
  IF MappingViolation(M, C, id, row) THEN [err |-> TRUE, table |-> M]
  ELSE [err |-> FALSE, table |-> PutMapping(M, id, row)]

\* ProductMappingRepository.Delete
DeleteMapping(M, id) == [i \in DOMAIN M \ {id} |-> M[i]]

\* ProductMappingRepository.UpdateSyncStatus: UPDATE of sync_status and
\* sync_error (and of last_synced_at, which the model does not keep)
\* WHERE id = ?; status "synced" clears the error; no row, no change and no
\* error.
UpdateSyncStatus(M, id, status, errorMessage) ==
  IF id \in DOMAIN M
  THEN [M EXCEPT ![id].sync_status = status,
                 ![id].sync_error =
                   IF status = SyncStatusSynced THEN "" ELSE errorMessage]
  ELSE M

\* ProductMappingRepository.DeleteByConnectionID: one DELETE of every mapping
\* of the connection.
DeleteByConnectionID(M, connectionID) ==
  [i \in { j \in DOMAIN M : M[j].connection_id # connectionID } |-> M[i]]

\* ------------------------------------------------- the OAuth state model
\* fmt.Sprintf("%s_%s", platform, randomState), the n-th random state
StateOf(platform, n) == [platform |-> platform, random |-> n]

\* The state values a callback URL may carry: none, or any string of that form.
StateValues ==
  {StateOf("", 0)} \cup
  { StateOf(platform, n) : platform \in {"shopee", "tiktok"}, n \in 1..MaxStates }

NoQuery == [platform |-> "", state |-> StateOf("", 0), phase |-> "none"]

\* ---------------------------------------------------- the schema model
\* The tables with connection_id REFERENCES connections(id) ON DELETE CASCADE
\* that the repositories write.
ReferencingTables ==
  {"product_mappings", "category_mappings", "sync_jobs", "orders",
   "imported_products"}

\* A DELETE of connection id that leaves the referencing rows alone.
CascadeNone(R, id) == R

\* ON DELETE CASCADE: the rows left when connection id is deleted.
Cascade(R, id) == { r \in R : r.connection_id # id }

\* ConnectionRepository.Delete
DeleteConnection(C, id) == [i \in DOMAIN C \ {id} |-> C[i]]

\* Create of a repository on a referencing table (Upsert for imported
\* products): the INSERT is refused when connection_id names no connection.
InsertRow(R, C, id, table, connectionID) ==
  IF connectionID \in DOMAIN C
  THEN R \cup {[table |-> table, id |-> id, connection_id |-> connectionID]}
  ELSE R

\* Delete of a repository on a referencing table
DeleteRow(R, table, id) == { r \in R : ~(r.table = table /\ r.id = id) }

\* The tables whose repository has an Update that is a Save of the struct.
SavedTables == {"product_mappings", "category_mappings", "sync_jobs", "orders"}

\* Update of such a repository: Save writes every column, connection_id too, to
\* the row with the struct's id (and inserts it when there is none); refused
\* when connection_id names no connection.
UpdateRow(R, C, table, id, connectionID) ==
  IF connectionID \in DOMAIN C
  THEN DeleteRow(R, table, id)
         \cup {[table |-> table, id |-> id, connection_id |-> connectionID]}
  ELSE R

\* The tables whose repository inserts several rows in one statement:
\* ProductMappingRepository.CreateBatch, ImportedProductRepository.UpsertBatch.
BatchTables == {"product_mappings", "imported_products"}

\* CreateInBatches of such a repository: one INSERT of the rows, ids first,
\* first + 1, ...; all of them are stored or, when one names no connection,
\* none.
InsertRows(R, C, first, table, connectionIDs) ==
  IF \A k \in 1..Len(connectionIDs) : connectionIDs[k] \in DOMAIN C
  THEN R \cup { [table |-> table, id |-> first + k - 1,
                 connection_id |-> connectionIDs[k]] :
                 k \in 1..Len(connectionIDs) }
  ELSE R

\* The tables whose repository has a DeleteByConnectionID.
PurgedTables == {"product_mappings", "category_mappings", "imported_products"}

\* DeleteByConnectionID of such a repository: one DELETE of every row of the
\* connection; the connection stays.
DeleteRowsByConnectionID(R, table, connectionID) ==
  { r \in R : ~(r.table = table /\ r.connection_id = connectionID) }

\* ------------------------------------------------------------------ state
\* No DeleteOldCompleted call observed yet.
NoPurge == [olderThanHours |-> NoTime, ids |-> {}, calls |-> 0]

InitJobs ==
  /\ jobs = << >>
  /\ nextJob = 1
  /\ now = 0
  /\ pc = [w \in Workers |-> "idle"]
  /\ batch = [w \in Workers |-> << >>]
  /\ purged = NoPurge

InitQuery ==
  /\ asked = 0
  /\ result = << >>

\* A ConnectionService as NewConnectionService returns it, no connection yet.
InitConns(c) ==
  /\ cfg = c
  /\ conns = << >>
  /\ nextConn = 1
  /\ local = [p \in Callers |-> Idle]
  /\ resp = NoResponse
  /\ requests = 0

FullConfig ==
  [EncryptionKey |-> ValidKey, Shopee |-> TRUE, TikTok |-> TRUE]

\* The configurations NewConnectionService accepts: any encryption key (none,
\* one NewEncryptor refuses, a valid one), either platform set up or not.
Configs ==
  { [EncryptionKey |-> k, Shopee |-> sh, TikTok |-> tt] :
      k \in {"", "short", ValidKey}, sh \in BOOLEAN, tt \in BOOLEAN }

NoRequest ==
  [body |-> EmptyBody, Authorization |-> NoHeader, ShopeeHmacSha256 |-> NoHeader]
NoReply == [status |-> 0, body |-> ""]
NoEvent == [shop_id |-> 0, ordersn |-> "", status |-> ""]

\* A WebhookHandler as NewWebhookHandler returns it, no request yet.
InitHook(key) ==
  /\ hookKey = key
  /\ tiktokSecret = ""
  /\ request = NoRequest
  /\ handler = "none"
  /\ reply = NoReply
  /\ event = NoEvent
  /\ hookLog = ""

\* No OAuth state returned yet, no callback request received.
InitOAuth ==
  /\ issued = {}
  /\ query = [p \in Callers |-> NoQuery]

\* The referencing tables as the migrations create them: empty.
InitRows ==
  /\ rows = {}
  /\ nextRow = 1
  /\ cascaded = 0

\* marketplace.product_mappings as the migration creates it: empty.
InitMappings ==
  /\ mappings = << >>
  /\ nextMapping = 1
  /\ mapErr = FALSE
  /\ saving = << >>

Init ==
  /\ InitJobs
  /\ InitQuery
  /\ InitMappings
  /\ InitRows
  /\ InitOAuth
  /\ InitConns(FullConfig)
  /\ InitHook("")

\* time passes
Tick ==
  /\ now < MaxTime
  /\ now' = now + 1
  /\ UNCHANGED <<purged, jobs, nextJob, pc, batch, queryVars, connVars, hookVars, mapVars, schemaVars, oauthVars>>

\* A caller queues a job. Status is left to its default; Attempts and
\* MaxAttempts are left to their defaults (0) or set; ScheduledAt is left to
\* its default (now) or set.
CreateJob(a, m, sch) ==
  /\ nextJob <= MaxJobs
  /\ jobs' = Create(jobs, nextJob, NewSyncJob("", a, m, sch, now))
  /\ nextJob' = nextJob + 1
  /\ UNCHANGED <<purged, now, pc, batch, queryVars, connVars, hookVars, mapVars, schemaVars, oauthVars>>

\* ---------------------------------------------------------------- the poller
\* An idle worker polls: it keeps the ids of the rows GetPendingJobs returned.
Poll(w) ==
  /\ pc[w] = "idle"
  /\ \E limit \in Limits : \E r \in GetPendingJobs(jobs, now, limit) :
       /\ batch' = [batch EXCEPT ![w] = r]
       /\ pc' = [pc EXCEPT ![w] = IF r = << >> THEN "idle" ELSE "fetched"]
  /\ UNCHANGED <<purged, jobs, nextJob, now, queryVars, connVars, hookVars, mapVars, schemaVars, oauthVars>>

\* The worker marks the next job of its batch processing and starts executing it.
Start(w) ==
  /\ pc[w] = "fetched"
  /\ jobs' = MarkProcessing(jobs, Head(batch[w]), now)
  /\ pc' = [pc EXCEPT ![w] = "running"]
  /\ UNCHANGED <<purged, nextJob, now, batch, queryVars, connVars, hookVars, mapVars, schemaVars, oauthVars>>

\* The platform call returned: the worker drops the job from its batch.
Done(w) ==
  /\ batch' = [batch EXCEPT ![w] = Tail(@)]
  /\ pc' = [pc EXCEPT ![w] = IF Tail(batch[w]) = << >> THEN "idle" ELSE "fetched"]

\* The platform call succeeded.
Complete(w) ==
  /\ pc[w] = "running"
  /\ jobs' = MarkCompleted(jobs, Head(batch[w]), now)
  /\ Done(w)
  /\ UNCHANGED <<purged, nextJob, now, queryVars, connVars, hookVars, mapVars, schemaVars, oauthVars>>

\* The platform call failed.
Fail(w) ==
  /\ pc[w] = "running"
  /\ jobs' = MarkFailed(jobs, Head(batch[w]), "error", now)
  /\ Done(w)
  /\ UNCHANGED <<purged, nextJob, now, queryVars, connVars, hookVars, mapVars, schemaVars, oauthVars>>

Next ==
  \/ Tick
  \/ \E m \in {0, 1}, sch \in {NoTime, MaxTime} : CreateJob(0, m, sch)
  \/ \E w \in Workers : Poll(w)
  \/ \E w \in Workers : Start(w)
  \/ \E w \in Workers : Complete(w)
  \/ \E w \in Workers : Fail(w)

\* The queue driven by its pollers.
Spec == Init /\ [][Next]_vars

\* The same, with the workers scheduled fairly and time passing.
FairSpec ==
  /\ Init /\ [][Next]_vars
  /\ WF_vars(Tick)
  /\ \A w \in Workers : WF_vars(Poll(w))
  /\ \A w \in Workers : WF_vars(Start(w))
  /\ \A w \in Workers : WF_vars(Complete(w) \/ Fail(w))

\* ------------------------------------------- the repository called directly
\* One call of MarkProcessing(id).
MarkProcessingCall(id) ==
  /\ id \in DOMAIN jobs => jobs[id].attempts < AttemptsCap
  /\ jobs' = MarkProcessing(jobs, id, now)
  /\ UNCHANGED <<purged, nextJob, now, pc, batch, queryVars, connVars, hookVars, mapVars, schemaVars, oauthVars>>

RepoMarkProcessing == \E id \in JobIds : MarkProcessingCall(id)

RepoMarkCompleted ==
  /\ \E id \in JobIds : jobs' = MarkCompleted(jobs, id, now)
  /\ UNCHANGED <<purged, nextJob, now, pc, batch, queryVars, connVars, hookVars, mapVars, schemaVars, oauthVars>>

RepoMarkFailed ==
  /\ \E id \in JobIds : jobs' = MarkFailed(jobs, id, "error", now)
  /\ UNCHANGED <<purged, nextJob, now, pc, batch, queryVars, connVars, hookVars, mapVars, schemaVars, oauthVars>>

RepoDelete ==
  /\ \E id \in JobIds : jobs' = Delete(jobs, id)
  /\ UNCHANGED <<purged, nextJob, now, pc, batch, queryVars, connVars, hookVars, mapVars, schemaVars, oauthVars>>

RepoDeleteOldCompleted ==
  /\ \E olderThanHours \in Times : jobs' = DeleteOldCompleted(jobs, now, olderThanHours)
  /\ UNCHANGED <<purged, nextJob, now, pc, batch, queryVars, connVars, hookVars, mapVars, schemaVars, oauthVars>>

\* One call of DeleteOldCompleted(olderThanHours), observed: the argument and
\* the ids of the rows it deleted are kept, and the calls are counted modulo 2,
\* so that a call that deletes nothing is a step too.
DeleteOldCompletedCall(olderThanHours) ==
  /\ jobs' = DeleteOldCompleted(jobs, now, olderThanHours)
  /\ purged' = [olderThanHours |-> olderThanHours,
                ids |-> DOMAIN jobs \ DOMAIN jobs',
                calls |-> (purged.calls + 1) % 2]
  /\ UNCHANGED <<nextJob, now, pc, batch, queryVars, connVars, hookVars, mapVars, schemaVars, oauthVars>>

\* SyncJobRepository.Create of a job whose Status is set.
CreateJobWithStatus(status) ==
  /\ nextJob <= MaxJobs
  /\ jobs' = Create(jobs, nextJob, NewSyncJob(status, 0, 0, NoTime, now))
  /\ nextJob' = nextJob + 1
  /\ UNCHANGED <<purged, now, pc, batch, queryVars, connVars, hookVars, mapVars, schemaVars, oauthVars>>

\* SyncJobRepository.Update(job): the caller has loaded the row, set its Status
\* and perhaps cleared its Attempts, and saves it.
RepoUpdateJob ==
  /\ \E id \in DOMAIN jobs, status \in JobStatuses, reset \in BOOLEAN :
       jobs' = UpdateJob(jobs, id, [jobs[id] EXCEPT
                                     !.status = status,
                                     !.attempts = IF reset THEN 0 ELSE @],
                         now)
  /\ UNCHANGED <<purged, nextJob, now, pc, batch, queryVars, connVars, hookVars, mapVars, schemaVars, oauthVars>>

\* Create with the default status, MarkProcessing, MarkCompleted, MarkFailed,
\* Delete and DeleteOldCompleted.
NextLifecycle ==
  \/ Tick
  \/ \E a \in {0, 1}, m \in {0, 1}, sch \in {NoTime} \cup Times : CreateJob(a, m, sch)
  \/ RepoMarkProcessing
  \/ RepoMarkCompleted
  \/ RepoMarkFailed
  \/ RepoDelete
  \/ RepoDeleteOldCompleted

\* Any sequence of those calls.
SpecLifecycle == Init /\ [][NextLifecycle]_vars

NextRepo ==
  \/ NextLifecycle
  \/ \E status \in JobStatuses : CreateJobWithStatus(status)
  \/ RepoUpdateJob

\* Any sequence of calls of the repository's writing methods.
SpecRepo == Init /\ [][NextRepo]_vars

\* Jobs queued with the defaults, then marked and purged by direct calls.
NextMarks ==
  \/ Tick
  \/ \E m \in {0, 1} : CreateJob(0, m, NoTime)
  \/ RepoMarkProcessing
  \/ RepoMarkCompleted
  \/ RepoMarkFailed
  \/ RepoDeleteOldCompleted

SpecMarks == Init /\ [][NextMarks]_vars

\* ------------------------------------------------ GetPendingJobs on any table
\* The rows a table may hold (Create and Update store any of them).
StoredRows ==
  { [ status |-> st, attempts |-> am[1], max_attempts |-> am[2],
      scheduled_at |-> sch, started_at |-> NoTime, completed_at |-> NoTime,
      error_message |-> "", payload |-> "{}", updated_at |-> 0 ] :
      st \in JobStatuses, am \in {<<0, DefaultMaxAttempts>>, <<1, 1>>},
      sch \in Times }

Tables == UNION { [1..n -> StoredRows] : n \in 0..MaxRows }

InitTable ==
  /\ jobs \in Tables
  /\ nextJob = MaxJobs + 1
  /\ now \in Times
  /\ pc = [w \in Workers |-> "idle"]
  /\ batch = [w \in Workers |-> << >>]
  /\ purged = NoPurge
  /\ InitQuery
  /\ InitMappings
  /\ InitRows
  /\ InitOAuth
  /\ InitConns(FullConfig)
  /\ InitHook("")

\* One call of GetPendingJobs(limit).
Query ==
  /\ \E limit \in Limits : \E r \in GetPendingJobs(jobs, now, limit) :
       /\ asked' = limit
       /\ result' = r
  /\ UNCHANGED <<jobVars, connVars, hookVars, mapVars, schemaVars, oauthVars>>

NextQuery == Query

SpecQuery == InitTable /\ [][NextQuery]_vars

\* ------------------------------ MarkProcessing, DeleteOldCompleted on a table
StoredIds == 1..MaxStored

\* Rows as earlier calls have left them: any status; never attempted, or
\* attempted as often as allowed; never finished, or finished with an error at
\* time 0; last written at any time.
StartRows ==
  { [ status |-> st, attempts |-> am[1], max_attempts |-> am[2],
      scheduled_at |-> 0, started_at |-> NoTime, completed_at |-> o[1],
      error_message |-> o[2], payload |-> "{}", updated_at |-> u ] :
      st \in JobStatuses, am \in {<<0, DefaultMaxAttempts>>, <<1, 1>>},
      o \in {<<NoTime, "">>, <<0, "error">>}, u \in Times }

\* Rows of any status, never completed or completed at any time.
PurgeRows ==
  { [ status |-> st, attempts |-> 1, max_attempts |-> DefaultMaxAttempts,
      scheduled_at |-> 0, started_at |-> 0, completed_at |-> c,
      error_message |-> "", payload |-> "{}",
      updated_at |-> IF c = NoTime THEN 0 ELSE c ] :
      st \in JobStatuses, c \in {NoTime} \cup Times }

\* A table of at most MaxStored rows of R, none written after t.
TablesOf(R, t) ==
  { J \in UNION { [1..n -> R] : n \in 0..MaxStored } :
      \A i \in DOMAIN J : J[i].updated_at <= t }

InitJobTable(R) ==
  /\ now \in Times
  /\ jobs \in TablesOf(R, now)
  /\ nextJob = Len(jobs) + 1
  /\ pc = [w \in Workers |-> "idle"]
  /\ batch = [w \in Workers |-> << >>]
  /\ purged = NoPurge
  /\ InitQuery
  /\ InitMappings
  /\ InitRows
  /\ InitOAuth
  /\ InitConns(FullConfig)
  /\ InitHook("")

NextStart == \E id \in StoredIds : MarkProcessingCall(id)

\* MarkProcessing called on any row of any table.
SpecStart == InitJobTable(StartRows) /\ [][NextStart]_vars

NextPurge == \E olderThanHours \in Times : DeleteOldCompletedCall(olderThanHours)

\* DeleteOldCompleted called with any argument on any table.
SpecPurge == InitJobTable(PurgeRows) /\ [][NextPurge]_vars

\* ------------------------------------------------- the ConnectionService
\* The struct an OAuth callback builds for a shop without a connection; it
\* sets no CreatedAt and no UpdatedAt.
NewConnection(platform, shop, name, accessToken, refreshToken, expiresAt) ==
  [ platform |-> platform, shop_id |-> shop, shop_name |-> name,
    access_token |-> accessToken, refresh_token |-> refreshToken,
    token_expires_at |-> expiresAt, is_active |-> TRUE,
    settings |-> "{}", created_at |-> NoTime, updated_at |-> NoTime ]

\* autoCreateTime / autoUpdateTime: the INSERT stamps both with its time.
Created(row, t) == [row EXCEPT !.created_at = t, !.updated_at = t]

\* The row a callback leaves whose code exchange, for token pair k, and INSERT
\* both happen at time t.
ConnectionAt(platform, shop, name, k, t) ==
  Created(NewConnection(platform, shop, name,
                        Sealed(cfg, AccessTokenOf(k)),
                        Sealed(cfg, RefreshTokenOf(k)), ExpiresAt(t)), t)

\* What a callback holds when the marketplace has answered: the code is
\* exchanged for token pair k, whose expiry is fixed at that moment, and the
\* tokens are sealed.
Exchanged(platform, shop, name, k, keepName, expiresAt) ==
  [ pc |-> "exchanged", platform |-> platform, shop_id |-> shop,
    shop_name |-> name, keepName |-> keepName,
    access_token |-> Sealed(cfg, AccessTokenOf(k)),
    refresh_token |-> Sealed(cfg, RefreshTokenOf(k)),
    token_expires_at |-> expiresAt ]

\* ConnectionService.HandleShopeeCallback, to the answer of Shopee's
\* ExchangeCode, which fixes the tokens and their expiry; the request then
\* sets the shared client's tokens and asks for the shop's name. What is left
\* alone here is all but the OAuth handler's variables.
ShopeeExchangeCode(p) ==
  /\ local[p].pc = "idle"
  /\ requests < MaxRequests
  /\ requests' = requests + 1
  /\ \/ /\ ~cfg.Shopee
        /\ resp' = Failed("Shopee integration not configured")
        /\ UNCHANGED local
     \/ /\ cfg.Shopee
        /\ resp' = Failed("failed to exchange code")
        /\ UNCHANGED local
     \/ /\ cfg.Shopee
        /\ \E shopID \in ShopIds, k \in TokenIds :
             local' = [local EXCEPT ![p] =
               [ pc |-> "shopinfo", shop_id |-> ShopIDString(shopID), k |-> k,
                 token_expires_at |-> ExpiresAt(now) ]]
        /\ UNCHANGED resp
  /\ UNCHANGED <<cfg, conns, nextConn, jobVars, queryVars, hookVars, mapVars, schemaVars>>

\* ConnectionService.HandleShopeeCallback called on its own.
HandleShopeeCallback(p) ==
  /\ ShopeeExchangeCode(p)
  /\ UNCHANGED oauthVars

\* Shopee answers GetShopInfo, and the tokens are sealed. The shop's name is
\* the one GetShopInfo reports, "Shopee Shop" when that call fails; it asks
\* with the tokens the shared client holds, which a concurrent callback may
\* have set since, so either outcome is possible whatever the shop.
GetShopInfo(p) ==
  /\ local[p].pc = "shopinfo"
  /\ \E name \in {"Batik Store", "Shopee Shop"} :
       local' = [local EXCEPT ![p] =
         Exchanged("shopee", local[p].shop_id, name, local[p].k, TRUE,
                   local[p].token_expires_at)]
  /\ UNCHANGED <<cfg, conns, nextConn, resp, requests, jobVars, queryVars, hookVars, mapVars, schemaVars, oauthVars>>

\* ConnectionService.HandleTikTokCallback, to the answer of TikTok's
\* ExchangeCode. The shop's id and name are the ones TikTok returns with the
\* tokens, which are sealed.
TikTokExchangeCode(p) ==
  /\ local[p].pc = "idle"
  /\ requests < MaxRequests
  /\ requests' = requests + 1
  /\ \/ /\ ~cfg.TikTok
        /\ resp' = Failed("TikTok integration not configured")
        /\ UNCHANGED local
     \/ /\ cfg.TikTok
        /\ resp' = Failed("failed to exchange code")
        /\ UNCHANGED local
     \/ /\ cfg.TikTok
        /\ \E shopID \in ShopIds, k \in TokenIds :
             local' = [local EXCEPT ![p] =
               Exchanged("tiktok", ShopIDString(shopID), "Batik Store", k, FALSE,
                         ExpiresAt(now))]
        /\ UNCHANGED resp
  /\ UNCHANGED <<cfg, conns, nextConn, jobVars, queryVars, hookVars, mapVars, schemaVars>>

\* ConnectionService.HandleTikTokCallback called on its own.
HandleTikTokCallback(p) ==
  /\ TikTokExchangeCode(p)
  /\ UNCHANGED oauthVars

\* The callback's lookup of the shop's row, repo.GetByPlatformAndShopID: the
\* request goes on to update the row it found, or to create one.
CallbackLookup(p) ==
  /\ local[p].pc = "exchanged"
  /\ LET l == local[p]
         existing == GetByPlatformAndShopID(conns, l.platform, l.shop_id)
     IN  local' = [local EXCEPT ![p] =
           IF existing # 0
           THEN [ pc |-> "update", op |-> "callback", id |-> existing,
                  row |-> [conns[existing] EXCEPT
                             !.access_token = l.access_token,
                             !.refresh_token = l.refresh_token,
                             !.token_expires_at = l.token_expires_at,
                             !.shop_name = IF l.keepName THEN @ ELSE l.shop_name,
                             !.is_active = TRUE] ]
           ELSE [ pc |-> "create", id |-> 0,
                  row |-> NewConnection(l.platform, l.shop_id, l.shop_name,
                                        l.access_token, l.refresh_token,
                                        l.token_expires_at) ]]
  /\ UNCHANGED <<cfg, conns, nextConn, resp, requests, jobVars, queryVars, hookVars, mapVars, schemaVars, oauthVars>>

\* ConnectionService.Disconnect, to the write: the row is read and its struct
\* marked inactive.
Disconnect(p) ==
  /\ local[p].pc = "idle"
  /\ requests < MaxRequests
  /\ requests' = requests + 1
  /\ \E id \in 1..nextConn :
       IF id \in DOMAIN conns
       THEN /\ local' = [local EXCEPT ![p] =
                  [ pc |-> "update", op |-> "disconnect", id |-> id,
                    row |-> [conns[id] EXCEPT !.is_active = FALSE] ]]
            /\ UNCHANGED resp
       ELSE /\ resp' = Failed("connection not found")
            /\ UNCHANGED local
  /\ UNCHANGED <<cfg, conns, nextConn, jobVars, queryVars, hookVars, mapVars, schemaVars, oauthVars>>

\* repo.Update(existing) of a callback, then existing.ToResponse(); and
\* repo.Update(conn) of Disconnect.
RepoUpdate(p) ==
  /\ local[p].pc = "update"
  /\ conns' = Save(conns, local[p].id, local[p].row, now)
  /\ resp' =
       IF UniqueViolation(conns, local[p].id, local[p].row)
       THEN Failed("failed to update connection")
       ELSE IF local[p].op = "disconnect" THEN [kind |-> "done"]
       ELSE [kind |-> "ok",
             connection |-> ToResponse(local[p].id,
                                       [local[p].row EXCEPT !.updated_at = now])]
  /\ local' = [local EXCEPT ![p] = Idle]
  /\ UNCHANGED <<requests, cfg, nextConn, jobVars, queryVars, hookVars, mapVars, schemaVars, oauthVars>>

\* The callback found no row: repo.Create(conn), which stamps created_at and
\* updated_at, then conn.ToResponse().
RepoCreate(p) ==
  /\ local[p].pc = "create"
  /\ conns' = Insert(conns, nextConn, Created(local[p].row, now))
  /\ IF nextConn \in DOMAIN conns'
     THEN /\ nextConn' = nextConn + 1
          /\ resp' = [kind |-> "ok",
                       connection |-> ToResponse(nextConn, Created(local[p].row, now))]
     ELSE /\ nextConn' = nextConn
          /\ resp' = Failed("failed to create connection")
  /\ local' = [local EXCEPT ![p] = Idle]
  /\ UNCHANGED <<requests, cfg, jobVars, queryVars, hookVars, mapVars, schemaVars, oauthVars>>

\* ConnectionService.RefreshConnectionToken, to the call of the marketplace:
\* the row is read, its refresh token decrypted, and the platform's
\* RefreshToken called.
RefreshConnectionToken(p) ==
  /\ local[p].pc = "idle"
  /\ requests < MaxRequests
  /\ requests' = requests + 1
  /\ \E id \in 1..nextConn :
       IF id \notin DOMAIN conns
       THEN /\ resp' = Failed("connection not found")
            /\ UNCHANGED local
       ELSE IF EncryptorOf(cfg) # "nil" /\ ~Decrypt(conns[id].refresh_token).ok
       THEN /\ resp' = Failed("failed to decrypt refresh token")
            /\ UNCHANGED local
       ELSE IF conns[id].platform \notin {"shopee", "tiktok"}
       THEN /\ resp' = Failed("invalid platform: must be 'shopee' or 'tiktok'")
            /\ UNCHANGED local
       ELSE IF ~Configured(cfg, conns[id].platform)
       THEN /\ resp' =
                 IF conns[id].platform = "shopee"
                 THEN Failed("Shopee integration not configured")
                 ELSE Failed("TikTok integration not configured")
            /\ UNCHANGED local
       ELSE /\ local' = [local EXCEPT ![p] =
                 [ pc |-> "refreshing", id |-> id,
                   platform |-> conns[id].platform ]]
            /\ UNCHANGED resp
  /\ UNCHANGED <<cfg, conns, nextConn, jobVars, queryVars, hookVars, mapVars, schemaVars, oauthVars>>

\* The marketplace answers RefreshToken: an error, or token pair k, whose
\* expiry is fixed at that moment; the tokens are sealed.
RefreshToken(p) ==
  /\ local[p].pc = "refreshing"
  /\ \/ /\ resp' =
             IF local[p].platform = "shopee"
             THEN Failed("failed to refresh Shopee token")
             ELSE Failed("failed to refresh TikTok token")
        /\ local' = [local EXCEPT ![p] = Idle]
     \/ /\ \E k \in TokenIds :
             local' = [local EXCEPT ![p] =
               [ pc |-> "tokens", id |-> local[p].id,
                 access_token |-> Sealed(cfg, AccessTokenOf(k)),
                 refresh_token |-> Sealed(cfg, RefreshTokenOf(k)),
                 token_expires_at |-> ExpiresAt(now) ]]
        /\ UNCHANGED resp
  /\ UNCHANGED <<requests, cfg, conns, nextConn, jobVars, queryVars, hookVars, mapVars, schemaVars, oauthVars>>

\* RefreshConnectionToken's last statement: repo.UpdateTokens.
RepoUpdateTokens(p) ==
  /\ local[p].pc = "tokens"
  /\ conns' = UpdateTokens(conns, local[p].id, local[p].access_token,
                           local[p].refresh_token, local[p].token_expires_at, now)
  /\ resp' = [kind |-> "done"]
  /\ local' = [local EXCEPT ![p] = Idle]
  /\ UNCHANGED <<requests, cfg, nextConn, jobVars, queryVars, hookVars, mapVars, schemaVars, oauthVars>>

\* ConnectionHandler.GetConnections, GetActiveConnections and GetConnection:
\* the answer is what the service returns.
ConnectionHandlerGet(p) ==
  /\ local[p].pc = "idle"
  /\ requests < MaxRequests
  /\ requests' = requests + 1
  /\ \/ \E r \in GetAllConnections(conns) :
          resp' = [kind |-> "list", connections |-> r]
     \/ \E r \in GetActiveConnections(conns) :
          resp' = [kind |-> "active", connections |-> r]
     \/ \E id \in 1..nextConn :
          resp' = GetConnection(conns, id)
  /\ UNCHANGED <<cfg, conns, nextConn, local, jobVars, queryVars, hookVars, mapVars, schemaVars, oauthVars>>

NextConn ==
  \/ \E p \in Callers : HandleShopeeCallback(p)
  \/ \E p \in Callers : GetShopInfo(p)
  \/ \E p \in Callers : HandleTikTokCallback(p)
  \/ \E p \in Callers : CallbackLookup(p)
  \/ \E p \in Callers : Disconnect(p)
  \/ \E p \in Callers : RepoUpdate(p)
  \/ \E p \in Callers : RepoCreate(p)
  \/ \E p \in Callers : RefreshConnectionToken(p)
  \/ \E p \in Callers : RefreshToken(p)
  \/ \E p \in Callers : RepoUpdateTokens(p)
  \/ \E p \in Callers : ConnectionHandlerGet(p)

InitConn ==
  /\ InitJobs
  /\ InitQuery
  /\ InitMappings
  /\ InitRows
  /\ InitOAuth
  /\ \E c \in Configs : InitConns(c)
  /\ InitHook("")

\* Concurrent requests to a ConnectionService, under any configuration.
SpecConn == InitConn /\ [][NextConn]_vars

NextService == Tick \/ NextConn

\* The same requests while time passes.
SpecService == InitConn /\ [][NextService]_vars

\* ----------------------------------------------------- the WebhookHandler
\* WebhookHandler.HandleShopeeWebhook as the service runs it: a test push is
\* answered with its code; the signature in Authorization is checked when a key
\* is set and the header is present, and a bad one is logged only; an order
\* event whose body parses and names an order is dispatched.
HandleShopeeWebhook(req) ==
  /\ request' = req
  /\ handler' = "current"
  /\ IF req.body.json /\ req.body.push_verification_code # ""
     THEN /\ reply' = [status |-> 200, body |-> req.body.push_verification_code]
          /\ event' = NoEvent
          /\ hookLog' = "Shopee test push received"
     ELSE /\ hookLog' =
               IF /\ hookKey # ""
                  /\ req.Authorization # NoHeader
                  /\ ~verifyShopeeSignature(hookKey, req.body, req.Authorization)
               THEN "Invalid Shopee webhook signature"
               ELSE ""
          /\ IF ~req.body.json
             THEN /\ reply' = [status |-> 200, body |-> "parse error"]
                  /\ event' = NoEvent
             ELSE /\ reply' = [status |-> 200, body |-> "received"]
                  /\ event' = IF req.body.ordersn # ""
                              THEN HandleShopeeOrderEvent(req.body)
                              ELSE NoEvent
  /\ UNCHANGED <<hookKey, tiktokSecret, jobVars, queryVars, connVars, mapVars, schemaVars, oauthVars>>

\* HandleShopeeWebhook of internal/handlers: the signature in
\* Shopee-Hmac-Sha256 is checked when a key is set, and a bad or missing one is
\* refused with 401.
HandleShopeeWebhookLegacy(req) ==
  /\ request' = req
  /\ handler' = "legacy"
  /\ IF hookKey # "" /\ ~verifyShopeeSignature(hookKey, req.body, req.ShopeeHmacSha256)
     THEN /\ reply' = [status |-> 401, body |-> "invalid signature"]
          /\ event' = NoEvent
          /\ hookLog' = "Invalid Shopee webhook signature"
     ELSE /\ hookLog' = ""
          /\ IF ~req.body.json
             THEN /\ reply' = [status |-> 400, body |-> "invalid payload"]
                  /\ event' = NoEvent
             ELSE /\ reply' = [status |-> 200, body |-> "received"]
                  /\ event' = IF req.body.ordersn # ""
                              THEN HandleShopeeOrderEvent(req.body)
                              ELSE NoEvent
  /\ UNCHANGED <<hookKey, tiktokSecret, jobVars, queryVars, connVars, mapVars, schemaVars, oauthVars>>

NextHook ==
  \/ \E req \in Requests : HandleShopeeWebhook(req)
  \/ \E req \in Requests : HandleShopeeWebhookLegacy(req)

InitHookSpec ==
  /\ InitJobs
  /\ InitQuery
  /\ InitMappings
  /\ InitRows
  /\ InitOAuth
  /\ InitConns(FullConfig)
  /\ \E key \in {"", PartnerKey} : InitHook(key)

\* Shopee webhooks arriving at a WebhookHandler, with and without a partner key.
SpecHook == InitHookSpec /\ [][NextHook]_vars

\* WebhookHandler.HandleTikTokWebhook, the same in both copies of the handler:
\* with a secret set, a request whose X-Tts-Signature does not verify is
\* refused with 401; a body that does not parse is refused with 400; an
\* ORDER_STATUS_CHANGE that names an order is dispatched.
TikTokWebhook(req, which) ==
  /\ request' = req
  /\ handler' = which
  /\ IF tiktokSecret # "" /\ ~verifyTikTokSignature(tiktokSecret, req.body, req.XTtsSignature)
     THEN /\ reply' = [status |-> 401, body |-> "invalid signature"]
          /\ event' = NoTikTokEvent
          /\ hookLog' = "Invalid TikTok webhook signature"
     ELSE /\ hookLog' = ""
          /\ IF ~req.body.json
             THEN /\ reply' = [status |-> 400, body |-> "invalid payload"]
                  /\ event' = NoTikTokEvent
             ELSE /\ reply' = [status |-> 200, body |-> "received"]
                  /\ event' = IF /\ req.body.type = "ORDER_STATUS_CHANGE"
                                 /\ req.body.order_id # ""
                              THEN HandleTikTokOrderEvent(req.body)
                              ELSE NoTikTokEvent
  /\ UNCHANGED <<hookKey, tiktokSecret, jobVars, queryVars, connVars, mapVars, schemaVars, oauthVars>>

HandleTikTokWebhook(req) == TikTokWebhook(req, "current")
HandleTikTokWebhookLegacy(req) == TikTokWebhook(req, "legacy")

NextTikTok ==
  \/ \E req \in TikTokRequests : HandleTikTokWebhook(req)
  \/ \E req \in TikTokRequests : HandleTikTokWebhookLegacy(req)

InitTikTok ==
  /\ InitJobs
  /\ InitQuery
  /\ InitMappings
  /\ InitRows
  /\ InitOAuth
  /\ InitConns(FullConfig)
  /\ hookKey = ""
  /\ tiktokSecret \in {"", AppSecret}
  /\ request = [body |-> EmptyTikTokBody, XTtsSignature |-> NoHeader]
  /\ handler = "none"
  /\ reply = NoReply
  /\ event = NoTikTokEvent
  /\ hookLog = ""

\* TikTok webhooks arriving at a WebhookHandler, with and without an app secret.
SpecTikTok == InitTikTok /\ [][NextTikTok]_vars

\* ------------------------------------- Disconnect and RefreshConnectionToken
\* The connections table after the callbacks of one Shopee and one TikTok shop.
MappedConnections ==
  << ConnectionAt("shopee", ShopIDString(1), "Batik Store", 1, 0),
     ConnectionAt("tiktok", ShopIDString(1), "Batik Store", 1, 0) >>

\* Two stored connections, and no request yet.
InitStored ==
  /\ InitJobs
  /\ InitQuery
  /\ InitMappings
  /\ InitRows
  /\ InitOAuth
  /\ cfg = FullConfig
  /\ conns = MappedConnections
  /\ nextConn = Len(MappedConnections) + 1
  /\ local = [p \in Callers |-> Idle]
  /\ resp = NoResponse
  /\ requests = 0
  /\ InitHook("")

NextStored ==
  \/ Tick
  \/ \E p \in Callers : Disconnect(p)
  \/ \E p \in Callers : RepoUpdate(p)
  \/ \E p \in Callers : RefreshConnectionToken(p)
  \/ \E p \in Callers : RefreshToken(p)
  \/ \E p \in Callers : RepoUpdateTokens(p)

\* Concurrent Disconnect and RefreshConnectionToken requests on stored
\* connections, while time passes.
SpecStored == InitStored /\ [][NextStored]_vars

\* ------------------------------------------ callbacks for a connected shop
\* The connections table after the callback of one Shopee shop.
OneConnection == << ConnectionAt("shopee", ShopIDString(1), "Batik Store", 1, 0) >>

\* One stored connection, and no request yet.
InitCallback ==
  /\ InitJobs
  /\ InitQuery
  /\ InitMappings
  /\ InitRows
  /\ InitOAuth
  /\ cfg = FullConfig
  /\ conns = OneConnection
  /\ nextConn = Len(OneConnection) + 1
  /\ local = [p \in Callers |-> Idle]
  /\ resp = NoResponse
  /\ requests = 0
  /\ InitHook("")

NextCallback ==
  \/ Tick
  \/ \E p \in Callers : HandleShopeeCallback(p)
  \/ \E p \in Callers : GetShopInfo(p)
  \/ \E p \in Callers : HandleTikTokCallback(p)
  \/ \E p \in Callers : CallbackLookup(p)
  \/ \E p \in Callers : Disconnect(p)
  \/ \E p \in Callers : RepoUpdate(p)
  \/ \E p \in Callers : RepoCreate(p)

\* Concurrent OAuth callbacks and Disconnect requests, for a shop that is
\* connected and for one that is not, while time passes.
SpecCallback == InitCallback /\ [][NextCallback]_vars

\* ------------------------------------------------ the active connections
\* ConnectionRepository.Deactivate(id)
RepoDeactivate ==
  /\ requests < MaxRequests
  /\ requests' = requests + 1
  /\ \E id \in 1..nextConn : conns' = Deactivate(conns, id, now)
  /\ resp' = [kind |-> "done"]
  /\ UNCHANGED <<cfg, nextConn, local, jobVars, queryVars, hookVars, mapVars, schemaVars, oauthVars>>

\* ConnectionService.GetActiveConnections()
RepoGetActiveConnections ==
  /\ requests < MaxRequests
  /\ requests' = requests + 1
  /\ \E r \in GetActiveConnections(conns) :
       resp' = [kind |-> "active", connections |-> r]
  /\ UNCHANGED <<cfg, conns, nextConn, local, jobVars, queryVars, hookVars, mapVars, schemaVars, oauthVars>>

\* ConnectionRepository.GetActiveConnectionsByPlatform(platform)
RepoGetActiveConnectionsByPlatform ==
  /\ requests < MaxRequests
  /\ requests' = requests + 1
  /\ \E platform \in {"shopee", "tiktok"} :
       \E r \in GetActiveConnectionsByPlatform(conns, platform) :
         resp' = [kind |-> "by platform", platform |-> platform, connections |-> r]
  /\ UNCHANGED <<cfg, conns, nextConn, local, jobVars, queryVars, hookVars, mapVars, schemaVars, oauthVars>>

\* ConnectionRepository.GetConnectionsNeedingTokenRefresh(withinMinutes)
RepoGetConnectionsNeedingTokenRefresh ==
  /\ requests < MaxRequests
  /\ requests' = requests + 1
  /\ \E withinMinutes \in Times :
       \E r \in GetConnectionsNeedingTokenRefresh(conns, now, withinMinutes) :
         resp' = [kind |-> "needing refresh", withinMinutes |-> withinMinutes,
                  connections |-> r]
  /\ UNCHANGED <<cfg, conns, nextConn, local, jobVars, queryVars, hookVars, mapVars, schemaVars, oauthVars>>

NextActive ==
  \/ Tick
  \/ \E p \in Callers : HandleShopeeCallback(p)
  \/ \E p \in Callers : GetShopInfo(p)
  \/ \E p \in Callers : HandleTikTokCallback(p)
  \/ \E p \in Callers : CallbackLookup(p)
  \/ \E p \in Callers : Disconnect(p)
  \/ \E p \in Callers : RepoUpdate(p)
  \/ \E p \in Callers : RepoCreate(p)
  \/ RepoDeactivate
  \/ RepoGetActiveConnections
  \/ RepoGetActiveConnectionsByPlatform
  \/ RepoGetConnectionsNeedingTokenRefresh

\* Connections deactivated, reactivated by callbacks and queried, concurrently,
\* while time passes.
SpecActive == InitCallback /\ [][NextActive]_vars

\* ------------------------------------------- the ProductMappingRepository
\* The connection ids a caller may name: the stored ones and one that is not.
ConnectionIDs == 1..(Len(MappedConnections) + 1)

MappingInputs ==
  { NewProductMapping(c, i, x) :
      c \in ConnectionIDs, i \in Products, x \in ExternalProductIDs }

\* What a caller reports of a sync: it succeeded, or failed with a message.
SyncReports ==
  { [status |-> SyncStatusSynced, message |-> ""],
    [status |-> SyncStatusError, message |-> "boom"] }

\* The structs a caller may hand to Update: a mapping in either condition.
MappingUpdates ==
  { [row EXCEPT !.sync_status = report.status, !.sync_error = report.message] :
      row \in MappingInputs, report \in SyncReports }

\* ProductMappingRepository.Create(mapping)
MappingCreate(row) ==
  /\ nextMapping <= MaxMappings
  /\ LET r == CreateInBatches(mappings, conns, nextMapping, <<row>>)
     IN  /\ mappings' = r.table
         /\ mapErr' = r.err
         /\ nextMapping' = IF r.err THEN nextMapping ELSE nextMapping + 1
  /\ UNCHANGED <<saving, jobVars, queryVars, connVars, hookVars, schemaVars, oauthVars>>

\* ProductMappingRepository.CreateBatch(mappings), two mappings of a connection
MappingCreateBatch(items) ==
  /\ nextMapping + Len(items) - 1 <= MaxMappings
  /\ LET r == CreateInBatches(mappings, conns, nextMapping, items)
     IN  /\ mappings' = r.table
         /\ mapErr' = r.err
         /\ nextMapping' = IF r.err THEN nextMapping ELSE nextMapping + Len(items)
  /\ UNCHANGED <<saving, jobVars, queryVars, connVars, hookVars, schemaVars, oauthVars>>

\* ProductMappingRepository.Update(mapping), the struct carrying id: the UPDATE
\* of Save. When it affected a row or failed, the call returns; when it
\* affected none, the call goes on to its INSERT, and other calls may run
\* before that.
MappingUpdate(id, row) ==
  /\ LET r == UpdateMapping(mappings, conns, id, row)
     IN  IF r.err \/ r.affected > 0
         THEN /\ mappings' = r.table
              /\ mapErr' = r.err
              /\ saving' = saving
         ELSE /\ Len(saving) < MaxSaving
              /\ saving' = Append(saving, [id |-> id, row |-> row])
              /\ UNCHANGED <<mappings, mapErr>>
  /\ UNCHANGED <<nextMapping, jobVars, queryVars, connVars, hookVars, schemaVars, oauthVars>>

\* The INSERT of an Update whose UPDATE affected no row; the call returns.
MappingUpdateInsert(k) ==
  /\ k \in 1..Len(saving)
  /\ LET r == UpsertMapping(mappings, conns, saving[k].id, saving[k].row)
     IN  /\ mappings' = r.table
         /\ mapErr' = r.err
  /\ saving' = [i \in 1..(Len(saving) - 1) |->
                  IF i < k THEN saving[i] ELSE saving[i + 1]]
  /\ UNCHANGED <<nextMapping, jobVars, queryVars, connVars, hookVars, schemaVars, oauthVars>>

\* ProductMappingRepository.Delete(id)
MappingDelete(id) ==
  /\ mappings' = DeleteMapping(mappings, id)
  /\ mapErr' = FALSE
  /\ UNCHANGED <<nextMapping, saving, jobVars, queryVars, connVars, hookVars, schemaVars, oauthVars>>

\* ProductMappingRepository.UpdateSyncStatus(id, status, errorMessage)
MappingUpdateSyncStatus(id, status, errorMessage) ==
  /\ mappings' = UpdateSyncStatus(mappings, id, status, errorMessage)
  /\ mapErr' = FALSE
  /\ UNCHANGED <<nextMapping, saving, jobVars, queryVars, connVars, hookVars, schemaVars, oauthVars>>

\* ProductMappingRepository.DeleteByConnectionID(connectionID)
MappingDeleteByConnectionID(connectionID) ==
  /\ mappings' = DeleteByConnectionID(mappings, connectionID)
  /\ mapErr' = FALSE
  /\ UNCHANGED <<nextMapping, saving, jobVars, queryVars, connVars, hookVars, schemaVars, oauthVars>>

NextMap ==
  \/ \E row \in MappingInputs : MappingCreate(row)
  \/ \E a, b \in MappingInputs :
       a.connection_id = b.connection_id /\ MappingCreateBatch(<<a, b>>)
  \/ \E id \in 1..(nextMapping - 1), row \in MappingUpdates : MappingUpdate(id, row)
  \/ \E k \in 1..MaxSaving : MappingUpdateInsert(k)
  \/ \E id \in 1..(nextMapping - 1), report \in SyncReports :
       MappingUpdateSyncStatus(id, report.status, report.message)
  \/ \E id \in 1..(nextMapping - 1) : MappingDelete(id)
  \/ \E connectionID \in ConnectionIDs : MappingDeleteByConnectionID(connectionID)

InitMap ==
  /\ InitJobs
  /\ InitQuery
  /\ InitMappings
  /\ InitRows
  /\ InitOAuth
  /\ cfg = FullConfig
  /\ conns = MappedConnections
  /\ nextConn = Len(MappedConnections) + 1
  /\ local = [p \in Callers |-> Idle]
  /\ resp = NoResponse
  /\ requests = 0
  /\ InitHook("")

\* Calls of a ProductMappingRepository over a table of two connections.
SpecMap == InitMap /\ [][NextMap]_vars

\* ---------------------------------------------------- the OAuth dance
\* ConnectionService.GetAuthURL(platform): a fresh random state, prefixed with
\* the platform, is put into the authorization URL and returned.
GetAuthURL(platform) ==
  /\ Configured(cfg, platform)
  /\ \E n \in 1..MaxStates :
       /\ StateOf(platform, n) \notin issued
       /\ \A m \in 1..(n - 1) : StateOf(platform, m) \in issued
       /\ issued' = issued \cup {StateOf(platform, n)}
  /\ UNCHANGED <<query, jobVars, queryVars, connVars, hookVars, mapVars, schemaVars>>

\* A GET of /:platform/callback reaches ConnectionHandler, in a goroutine of
\* its own: its query carries a code, for Shopee a shop_id, and whatever state
\* the sender put there.
CallbackRequest(p, platform, state) ==
  /\ query[p] = NoQuery
  /\ query' = [query EXCEPT ![p] =
       [platform |-> platform, state |-> state, phase |-> "arrived"]]
  /\ UNCHANGED <<issued, jobVars, queryVars, connVars, hookVars, mapVars, schemaVars>>

\* ConnectionHandler.HandleShopeeCallback and HandleTikTokCallback: code (and
\* shop_id) are taken from the query and handed to the service; the state is
\* not read.
ShopeeCallbackRoute(p) ==
  /\ query[p].platform = "shopee"
  /\ query[p].phase = "arrived"
  /\ ShopeeExchangeCode(p)
  /\ query' = [query EXCEPT ![p].phase = "called"]
  /\ UNCHANGED issued

TikTokCallbackRoute(p) ==
  /\ query[p].platform = "tiktok"
  /\ query[p].phase = "arrived"
  /\ TikTokExchangeCode(p)
  /\ query' = [query EXCEPT ![p].phase = "called"]
  /\ UNCHANGED issued

\* The request's own service call has returned and the handler writes what it
\* returned (c.JSON): the request is over.
CallbackAnswered(p) ==
  /\ query[p].phase = "called"
  /\ local[p].pc = "idle"
  /\ query' = [query EXCEPT ![p] = NoQuery]
  /\ UNCHANGED <<issued, jobVars, queryVars, connVars, hookVars, mapVars, schemaVars>>

NextOAuth ==
  \/ \E platform \in {"shopee", "tiktok"} : GetAuthURL(platform)
  \/ \E p \in Callers, platform \in {"shopee", "tiktok"}, state \in StateValues :
       CallbackRequest(p, platform, state)
  \/ \E p \in Callers : ShopeeCallbackRoute(p)
  \/ \E p \in Callers : TikTokCallbackRoute(p)
  \/ \E p \in Callers : GetShopInfo(p)
  \/ \E p \in Callers : CallbackLookup(p)
  \/ \E p \in Callers : RepoUpdate(p)
  \/ \E p \in Callers : RepoCreate(p)
  \/ \E p \in Callers : CallbackAnswered(p)

\* Authorization URLs handed out and callback requests served.
SpecOAuth == Init /\ [][NextOAuth]_vars

\* ------------------------------------------------ the marketplace schema
\* ConnectionRepository.Create
ConnectionCreate(platform) ==
  /\ nextConn <= MaxConnections
  /\ conns' = Insert(conns, nextConn,
                     ConnectionAt(platform, ShopIDString(1), "Batik Store", 1, now))
  /\ nextConn' = IF nextConn \in DOMAIN conns' THEN nextConn + 1 ELSE nextConn
  /\ cascaded' = 0
  /\ UNCHANGED <<cfg, local, resp, requests, rows, nextRow,
                 jobVars, queryVars, hookVars, mapVars, oauthVars>>

\* ConnectionRepository.Delete(id)
ConnectionDelete(id) ==
  /\ conns' = DeleteConnection(conns, id)
  /\ rows' = IF id \in DOMAIN conns THEN Cascade(rows, id) ELSE rows
  /\ cascaded' = Cardinality(rows) - Cardinality(rows')
  /\ UNCHANGED <<cfg, nextConn, local, resp, requests, nextRow,
                 jobVars, queryVars, hookVars, mapVars, oauthVars>>

\* Create (Upsert) of the repository of a referencing table
RowCreate(table, connectionID) ==
  /\ nextRow <= MaxRefs
  /\ rows' = InsertRow(rows, conns, nextRow, table, connectionID)
  /\ nextRow' = IF rows' # rows THEN nextRow + 1 ELSE nextRow
  /\ cascaded' = 0
  /\ UNCHANGED <<jobVars, queryVars, connVars, hookVars, mapVars, oauthVars>>

\* Delete of the repository of a referencing table
RowDelete(table, id) ==
  /\ rows' = DeleteRow(rows, table, id)
  /\ cascaded' = 0
  /\ UNCHANGED <<nextRow, jobVars, queryVars, connVars, hookVars, mapVars, oauthVars>>

\* Update of the repository of a referencing table: the stored row id is saved
\* with the connection_id the struct carries.
RowUpdate(table, id, connectionID) ==
  /\ rows' = UpdateRow(rows, conns, table, id, connectionID)
  /\ cascaded' = 0
  /\ UNCHANGED <<nextRow, jobVars, queryVars, connVars, hookVars, mapVars, oauthVars>>

\* CreateBatch / UpsertBatch of the repository of a referencing table, two new
\* rows
RowCreateBatch(table, connectionIDs) ==
  /\ nextRow + Len(connectionIDs) - 1 <= MaxRefs
  /\ rows' = InsertRows(rows, conns, nextRow, table, connectionIDs)
  /\ nextRow' = IF rows' # rows THEN nextRow + Len(connectionIDs) ELSE nextRow
  /\ cascaded' = 0
  /\ UNCHANGED <<jobVars, queryVars, connVars, hookVars, mapVars, oauthVars>>

\* DeleteByConnectionID of the repository of a referencing table
RowDeleteByConnectionID(table, connectionID) ==
  /\ rows' = DeleteRowsByConnectionID(rows, table, connectionID)
  /\ cascaded' = 0
  /\ UNCHANGED <<nextRow, jobVars, queryVars, connVars, hookVars, mapVars, oauthVars>>

NextSchema ==
  \/ \E platform \in {"shopee", "tiktok"} : ConnectionCreate(platform)
  \/ \E id \in 1..(nextConn - 1) : ConnectionDelete(id)
  \/ \E table \in ReferencingTables, c \in 1..MaxConnections :
       RowCreate(table, c)
  \/ \E r \in rows, c \in 1..MaxConnections :
       r.table \in SavedTables /\ RowUpdate(r.table, r.id, c)
  \/ \E table \in BatchTables, c, d \in 1..MaxConnections :
       RowCreateBatch(table, <<c, d>>)
  \/ \E r \in rows : RowDelete(r.table, r.id)
  \/ \E table \in PurgedTables, c \in 1..MaxConnections :
       RowDeleteByConnectionID(table, c)

\* Creates and deletes on the connections table and the tables referencing it.
SpecSchema == Init /\ [][NextSchema]_vars

\* ------------------------------------------------------------------ claims
IsRunning(w, i) == pc[w] = "running" /\ Head(batch[w]) = i

\* C1: bounded retry: in every reachable state of the queue driven by its
\* pollers, every job has attempts <= max_attempts.
C1_BoundedRetry ==
  \A i \in DOMAIN jobs : jobs[i].attempts <= jobs[i].max_attempts

\* C2: GetPendingJobs(limit) returns only rows that are pending, due
\* (scheduled_at <= now) and have attempts < max_attempts; each row once, at
\* most limit rows, in ascending scheduled_at order; it returns limit rows when
\* that many are eligible (all of them otherwise), and no eligible row left out
\* is scheduled earlier than a returned one.
C2_PendingJobsSelected ==
  LET ok(i) == /\ jobs[i].status = "pending"
               /\ jobs[i].scheduled_at <= now
               /\ jobs[i].attempts < jobs[i].max_attempts
      n == Cardinality({ i \in DOMAIN jobs : ok(i) })
      got == { result[k] : k \in 1..Len(result) }
  IN  asked > 0 =>
        /\ \A k \in 1..Len(result) : result[k] \in DOMAIN jobs /\ ok(result[k])
        /\ Cardinality(got) = Len(result)
        /\ Len(result) <= asked
        /\ Len(result) = IF n < asked THEN n ELSE asked
        /\ \A k \in 1..(Len(result) - 1) :
             jobs[result[k]].scheduled_at <= jobs[result[k + 1]].scheduled_at
        /\ \A i \in DOMAIN jobs : ok(i) /\ i \notin got =>
             \A k \in 1..Len(result) :
               jobs[result[k]].scheduled_at <= jobs[i].scheduled_at

\* A call with limit 2 on a table of three eligible rows, not all scheduled at
\* the same time, returned two rows.
C2_Witness ==
  /\ asked = 2 /\ Len(result) = 2
  /\ Cardinality(Eligible(jobs, now)) = 3
  /\ jobs[result[1]].scheduled_at < jobs[result[2]].scheduled_at

\* C3: a failed job with attempts left is retried: it is eventually executed
\* again (selected by GetPendingJobs and marked processing by a worker).
C3_FailedJobRetried ==
  \A i \in JobIds :
    (i \in DOMAIN jobs /\ jobs[i].status = "failed"
       /\ jobs[i].attempts < jobs[i].max_attempts
       /\ \A w \in Workers : batch[w] = << >>)
    ~> (\E w \in Workers : IsRunning(w, i))

\* C4: under fair scheduling of the workers no job stays in status processing
\* forever: it becomes completed or failed.
C4_ProcessingEnds ==
  \A i \in JobIds :
    (i \in DOMAIN jobs /\ jobs[i].status = "processing")
    ~> (i \in DOMAIN jobs /\ jobs[i].status \in {"completed", "failed"})

\* A job that a worker marked processing has been marked failed, and no worker
\* holds it any more.
C4_Witness ==
  \E i \in DOMAIN jobs :
    /\ jobs[i].status = "failed" /\ jobs[i].started_at # NoTime
    /\ \A w \in Workers : batch[w] = << >>

\* C5: nothing protects a job against double-processing: a worker's
\* MarkProcessing on a job it fetched takes effect whatever the job's status
\* has become since (the row is set to processing and its attempts counted up),
\* so two workers that fetched the same pending job both execute it.
C5_MarkProcessingUnguarded ==
  [][\A w \in Workers :
       (pc[w] = "fetched" /\ pc'[w] = "running" /\ Head(batch[w]) \in DOMAIN jobs)
       => /\ jobs'[Head(batch[w])].status = "processing"
          /\ jobs'[Head(batch[w])].attempts = jobs[Head(batch[w])].attempts + 1]_vars

\* Two workers are executing the same job, both after a MarkProcessing on it.
C5_Witness ==
  \E i \in DOMAIN jobs : \E v, w \in Workers :
    /\ v # w /\ IsRunning(v, i) /\ IsRunning(w, i)
    /\ jobs[i].status = "processing" /\ jobs[i].attempts >= 2

\* C6 as stated: every job's status is one of the four statuses, and every
\* newly created job is pending with attempts = 0 and max_attempts = 3.
C6_NewJobHasDefaults ==
  [][/\ \A i \in DOMAIN jobs' : jobs'[i].status \in JobStatuses
     /\ \A i \in DOMAIN jobs' \ DOMAIN jobs :
          /\ jobs'[i].status = "pending"
          /\ jobs'[i].attempts = 0
          /\ jobs'[i].max_attempts = 3]_vars

\* C6 as amended: every job's status is one of the four statuses; a newly
\* created job is pending, and it has attempts = 0 and max_attempts = 3 when
\* Create was given a job with Attempts and MaxAttempts unset.
C6_StatusesAndDefaults ==
  [][/\ \A i \in DOMAIN jobs' : jobs'[i].status \in JobStatuses
     /\ \A i \in DOMAIN jobs' \ DOMAIN jobs : jobs'[i].status = "pending"
     /\ (\E sch \in {NoTime} \cup Times : CreateJob(0, 0, sch))
          => \A i \in DOMAIN jobs' \ DOMAIN jobs :
               jobs'[i].attempts = 0 /\ jobs'[i].max_attempts = 3]_vars

\* A job created with the defaults has been marked processing, then failed.
C6_Witness ==
  \E i \in DOMAIN jobs :
    /\ jobs[i].status = "failed" /\ jobs[i].attempts = 1
    /\ jobs[i].max_attempts = 3

\* C7: every access_token and refresh_token stored in a connection row is the
\* encryption of a token the marketplace issued, never the token itself,
\* whatever configuration the ConnectionService was constructed with.
C7_TokensStoredEncrypted ==
  \A i \in DOMAIN conns :
    /\ \E k \in TokenIds : conns[i].access_token = Encrypt(AccessTokenOf(k))
    /\ \E k \in TokenIds : conns[i].refresh_token = Encrypt(RefreshTokenOf(k))

\* C8: after any interleaving of HandleShopeeCallback and HandleTikTokCallback
\* calls, concurrent ones for the same shop included, there is at most one
\* connection row for each (platform, shop_id) pair.
C8_OneConnectionPerShop ==
  \A i, j \in DOMAIN conns :
    (conns[i].platform = conns[j].platform /\ conns[i].shop_id = conns[j].shop_id)
      => i = j

\* Two callbacks for one shop both found no row; the second Create was refused.
C8_Witness ==
  /\ resp = Failed("failed to create connection")
  /\ \E i \in DOMAIN conns : conns[i].platform = "shopee"

\* The values a token column can hold.
TokenValues == PlainTokens \cup { Encrypt(t) : t \in PlainTokens }

\* The table with the tokens of every row replaced by token pair k, encrypted
\* or in the clear.
WithTokens(C, k, encrypted) ==
  [i \in DOMAIN C |->
     [C[i] EXCEPT
        !.access_token = IF encrypted THEN Encrypt(AccessTokenOf(k))
                         ELSE AccessTokenOf(k),
        !.refresh_token = IF encrypted THEN Encrypt(RefreshTokenOf(k))
                          ELSE RefreshTokenOf(k)]]

\* C9: connections that differ only in access_token and refresh_token give the
\* same responses: ToResponse, and so GetAllConnections, GetActiveConnections,
\* GetConnection and the callback results, do not depend on the tokens.
C9_ResponsesCarryNoTokens ==
  /\ \A k \in TokenIds, encrypted \in BOOLEAN :
       LET other == WithTokens(conns, k, encrypted)
       IN  /\ \A i \in DOMAIN conns :
                ToResponse(i, other[i]) = ToResponse(i, conns[i])
           /\ GetAllConnections(other) = GetAllConnections(conns)
           /\ GetActiveConnections(other) = GetActiveConnections(conns)
           /\ \A id \in 1..nextConn :
                GetConnection(other, id) = GetConnection(conns, id)
  /\ resp.kind = "ok" =>
       /\ "access_token" \notin DOMAIN resp.connection
       /\ "refresh_token" \notin DOMAIN resp.connection

\* A callback has answered with the response of a row that holds tokens.
C9_Witness ==
  /\ resp.kind = "ok"
  /\ resp.connection.id \in DOMAIN conns
  /\ conns[resp.connection.id].access_token \in TokenValues

\* C10: with a partner key configured, a Shopee webhook request that carries
\* no hex HMAC-SHA256 of its body under that key, in neither signature header,
\* never has its order event dispatched to HandleShopeeOrderEvent.
C10_UnsignedNeverDispatched ==
  (hookKey # "" /\ event # NoEvent) =>
    \/ request.Authorization = HmacHex(hookKey, request.body)
    \/ request.ShopeeHmacSha256 = HmacHex(hookKey, request.body)

\* C11: with an app secret configured, a TikTok webhook request whose
\* X-Tts-Signature is missing or is not the hex HMAC-SHA256 of its body under
\* the secret is answered with 401 and has no order event dispatched.
C11_TikTokSignatureVerified ==
  ( /\ tiktokSecret # ""
    /\ handler # "none"
    /\ request.XTtsSignature # HmacHex(tiktokSecret, request.body) )
  => (reply.status = 401 /\ event = NoTikTokEvent)

\* An order event signed with another key was refused.
C11_Witness ==
  /\ tiktokSecret # ""
  /\ handler # "none"
  /\ request.body.json /\ request.body.type = "ORDER_STATUS_CHANGE"
  /\ request.body.order_id # ""
  /\ request.XTtsSignature = HmacHex(OtherKey, request.body)
  /\ reply.status = 401 /\ event = NoTikTokEvent

\* C12: after any sequence of ProductMappingRepository Create, CreateBatch,
\* Update and Delete, no two mappings of one connection share an
\* internal_product_id and no two share an external_product_id; a call that
\* would break this returns an error and changes no row.
C12_MappingOneToOne ==
  /\ [](\A i, j \in DOMAIN mappings :
          ( /\ i # j
            /\ mappings[i].connection_id = mappings[j].connection_id )
          => /\ mappings[i].internal_product_id # mappings[j].internal_product_id
             /\ mappings[i].external_product_id # mappings[j].external_product_id)
  /\ [][mapErr' => mappings' = mappings]_vars

\* A call was refused while the same internal product is mapped in both
\* connections.
C12_Witness ==
  /\ mapErr
  /\ \E i, j \in DOMAIN mappings :
       /\ mappings[i].connection_id # mappings[j].connection_id
       /\ mappings[i].internal_product_id = mappings[j].internal_product_id

\* C13: the write of Disconnect(id) sets is_active of connection id to false
\* and changes no other column: access token, refresh token and token expiry
\* stay the ones stored when it writes, also when a RefreshConnectionToken on
\* the same connection ran in between.
C13_DisconnectOnlyDeactivates ==
  [][\A p \in Callers :
       ( /\ local[p].pc = "update"
         /\ local[p].op = "disconnect"
         /\ local'[p].pc = "idle" )
       => conns' = [conns EXCEPT ![local[p].id].is_active = FALSE,
                                 ![local[p].id].updated_at = now]]_vars

\* C14: after any sequence of creates and deletes, every product mapping,
\* category mapping, sync job, marketplace order and imported product
\* references an existing connection; deleting a connection removes every row
\* that references it.
C14_ReferentialIntegrity ==
  \A r \in rows : r.connection_id \in DOMAIN conns

\* The connection just deleted took referencing rows with it.
C14_Witness ==
  /\ cascaded > 0
  /\ \E id \in 1..(nextConn - 1) : id \notin DOMAIN conns

\* C15: a callback creates or updates a connection only when its request
\* carries a state that GetAuthURL returned before for the same platform.
C15_CallbackStateWasIssued ==
  [][\A p \in Callers :
       ( /\ local[p].pc \in {"create", "update"}
         /\ local'[p].pc = "idle"
         /\ conns' # conns )
       => ( /\ query[p].state \in issued
            /\ query[p].state.platform = query[p].platform )]_vars

\* C16, as stated: MarkProcessing(id) increases the attempts of job id by
\* exactly 1, sets its status to processing and its started_at to the time of
\* the call, and changes no other column of that job and no other job.
\* Violated: the row's updated_at moves to the time of the call.
C16_NoOtherColumn ==
  [][\A id \in StoredIds :
       (MarkProcessingCall(id) /\ id \in DOMAIN jobs) =>
         /\ DOMAIN jobs' = DOMAIN jobs
         /\ \A i \in DOMAIN jobs \ {id} : jobs'[i] = jobs[i]
         /\ jobs'[id] = [jobs[id] EXCEPT !.attempts = @ + 1,
                                         !.status = "processing",
                                         !.started_at = now]]_vars

\* C16: MarkProcessing(id) increases the attempts of job id by exactly 1, sets
\* its status to processing and its started_at to the time of the call, and
\* leaves max_attempts, scheduled_at, payload, completed_at and error_message
\* of that job as they were; the one further column that changes is its
\* updated_at, which becomes the time of the call. Every other job keeps all
\* its columns, and no job is added or removed.
C16_MarkProcessingFrame ==
  [][\A id \in StoredIds :
       (MarkProcessingCall(id) /\ id \in DOMAIN jobs) =>
         /\ DOMAIN jobs' = DOMAIN jobs
         /\ \A i \in DOMAIN jobs \ {id} : jobs'[i] = jobs[i]
         /\ jobs'[id] = [jobs[id] EXCEPT !.attempts = @ + 1,
                                         !.status = "processing",
                                         !.started_at = now,
                                         !.updated_at = now]]_vars

\* A job that had failed at time 0 was marked processing at a later time, its
\* completed_at and error message still there, next to a job that never was.
C16_Witness ==
  \E i, j \in DOMAIN jobs :
    /\ i # j
    /\ jobs[i].status = "processing" /\ jobs[i].attempts = 2
    /\ jobs[i].max_attempts = 1 /\ jobs[i].started_at = now /\ jobs[i].updated_at = now /\ now > 0
    /\ jobs[i].error_message = "error" /\ jobs[i].completed_at = 0
    /\ jobs[j].started_at = NoTime /\ jobs[j].updated_at = 0

\* C17: MarkCompleted and MarkFailed never change attempts or max_attempts of
\* any job; MarkCompleted sets status completed and completed_at, MarkFailed
\* sets status failed and the error message and leaves completed_at unchanged.
C17_OnlyMarkProcessingCounts ==
  [][(RepoMarkCompleted \/ RepoMarkFailed) =>
       /\ DOMAIN jobs' = DOMAIN jobs
       /\ \A i \in DOMAIN jobs :
            /\ jobs'[i].attempts = jobs[i].attempts
            /\ jobs'[i].max_attempts = jobs[i].max_attempts
       /\ \E id \in JobIds :
            /\ \A i \in DOMAIN jobs \ {id} : jobs'[i] = jobs[i]
            /\ id \in DOMAIN jobs =>
                 \/ /\ RepoMarkCompleted
                    /\ jobs'[id].status = "completed"
                    /\ jobs'[id].completed_at = now
                 \/ /\ RepoMarkFailed
                    /\ jobs'[id].status = "failed"
                    /\ jobs'[id].error_message = "error"
                    /\ jobs'[id].completed_at = jobs[id].completed_at]_vars

\* A job that had been attempted and completed was then marked failed.
C17_Witness ==
  \E i \in DOMAIN jobs :
    /\ jobs[i].status = "failed"
    /\ jobs[i].completed_at # NoTime
    /\ jobs[i].attempts >= 1

\* C18: completed is terminal: a job that is completed and is not deleted by
\* the step is completed after it, with the same attempts, whatever a worker
\* that selected it while it was pending does later.
\* Violated: two workers select the pending job; the first marks it processing
\* and completed, the second then calls MarkProcessing, which is unconditional.
C18_CompletedIsTerminal ==
  [][\A i \in DOMAIN jobs :
       (jobs[i].status = "completed" /\ i \in DOMAIN jobs') =>
         /\ jobs'[i].status = "completed"
         /\ jobs'[i].attempts = jobs[i].attempts]_vars

\* C19: a call DeleteOldCompleted(olderThanHours) deletes exactly the jobs
\* that are completed and whose completed_at is earlier than now minus the
\* olderThanHours it was called with; pending, processing and failed jobs and
\* jobs completed within the window stay, unchanged.
C19_DeleteOldCompletedExact ==
  [][\A olderThanHours \in Times :
       DeleteOldCompletedCall(olderThanHours) =>
         /\ \A i \in DOMAIN jobs :
              i \notin DOMAIN jobs' <=>
                /\ jobs[i].status = "completed"
                /\ jobs[i].completed_at # NoTime
                /\ jobs[i].completed_at + olderThanHours < now
         /\ DOMAIN jobs' \subseteq DOMAIN jobs
         /\ \A i \in DOMAIN jobs' : jobs'[i] = jobs[i]]_vars

\* A call with a window of one hour deleted nothing and kept a job completed
\* an hour ago; the next call, with no window, deleted it and kept the job
\* completed this hour.
C19_Witness ==
  /\ purged.olderThanHours = 0 /\ purged.calls = 0
  /\ purged.ids # {}
  /\ \A i \in purged.ids : i \notin DOMAIN jobs
  /\ \E i \in DOMAIN jobs : jobs[i].status = "completed" /\ jobs[i].completed_at = now

\* C20: an OAuth callback that finds a connection of its (platform, shop_id)
\* goes on to update that row, with the tokens and the expiry of its own code
\* exchange and is_active = true; its update keeps the row's id, platform,
\* shop_id and created_at, touches no other row and leaves the number of rows
\* unchanged.
\* Only a callback that found no connection of its (platform, shop_id) goes on
\* to create one, and its INSERT adds at most one row, none when the shop has
\* got a connection meanwhile.
C20_CallbackUpdatesExisting ==
  [][\A p \in Callers :
       /\ CallbackLookup(p) =>
            LET known == { i \in DOMAIN conns :
                             /\ conns[i].platform = local[p].platform
                             /\ conns[i].shop_id = local[p].shop_id }
            IN  /\ conns' = conns
                /\ local'[p].row.platform = local[p].platform
                /\ local'[p].row.shop_id = local[p].shop_id
                /\ local'[p].row.is_active
                /\ local'[p].row.token_expires_at = local[p].token_expires_at
                /\ local'[p].row.access_token = local[p].access_token
                /\ local'[p].row.refresh_token = local[p].refresh_token
                /\ \E k \in TokenIds :
                     /\ local[p].access_token = Sealed(cfg, AccessTokenOf(k))
                     /\ local[p].refresh_token = Sealed(cfg, RefreshTokenOf(k))
                /\ IF known # {}
                   THEN /\ local'[p].pc = "update"
                        /\ known = {local'[p].id}
                        /\ local'[p].row.created_at = conns[local'[p].id].created_at
                   ELSE local'[p].pc = "create"
       /\ (RepoUpdate(p) /\ local[p].op = "callback") =>
            /\ DOMAIN conns' = DOMAIN conns
            /\ local[p].id \in DOMAIN conns
            /\ \A i \in DOMAIN conns \ {local[p].id} : conns'[i] = conns[i]
            /\ conns'[local[p].id].platform = conns[local[p].id].platform
            /\ conns'[local[p].id].shop_id = conns[local[p].id].shop_id
            /\ conns'[local[p].id].created_at = conns[local[p].id].created_at
            /\ conns'[local[p].id].access_token = local[p].row.access_token
            /\ conns'[local[p].id].refresh_token = local[p].row.refresh_token
            /\ conns'[local[p].id].token_expires_at = local[p].row.token_expires_at
            /\ conns'[local[p].id].is_active
       /\ RepoCreate(p) =>
            /\ \A i \in DOMAIN conns : i \in DOMAIN conns' /\ conns'[i] = conns[i]
            /\ DOMAIN conns' \subseteq DOMAIN conns \cup {nextConn}
            /\ nextConn \in DOMAIN conns' =>
                 /\ nextConn \notin DOMAIN conns
                 /\ conns'[nextConn] = [local[p].row EXCEPT !.created_at = now,
                                                            !.updated_at = now]
                 /\ \A i \in DOMAIN conns :
                      ~(/\ conns[i].platform = local[p].row.platform
                        /\ conns[i].shop_id = local[p].row.shop_id)]_vars

\* A callback for the connected shop has answered as the second request, an
\* hour after the first: still one row, with its id and created_at, active,
\* with the expiry of the later token exchange.
C20_Witness ==
  /\ requests = 2
  /\ resp.kind = "ok"
  /\ DOMAIN conns = {1}
  /\ resp.connection.id = 1
  /\ conns[1].is_active
  /\ conns[1].created_at = 0
  /\ conns[1].updated_at = 1
  /\ conns[1].token_expires_at = ExpiresAt(1)

\* C21: every answer of GetActiveConnections, GetActiveConnectionsByPlatform and
\* GetConnectionsNeedingTokenRefresh lists rows that are active when it is
\* given, each once: all of them, those of the platform asked for, and exactly
\* those whose token_expires_at is at most withinMinutes after now. A
\* successful Disconnect or Deactivate leaves its row inactive, and an inactive
\* row becomes active again only by the update of an OAuth callback for its
\* (platform, shop_id).
C21_DeactivatedNotReturned ==
  [][/\ RepoGetActiveConnections =>
          /\ { resp'.connections[k].id : k \in 1..Len(resp'.connections) }
                = { i \in DOMAIN conns : conns[i].is_active }
          /\ Len(resp'.connections)
                = Cardinality({ i \in DOMAIN conns : conns[i].is_active })
     /\ RepoGetActiveConnectionsByPlatform =>
          /\ { resp'.connections[k].id : k \in 1..Len(resp'.connections) }
                = { i \in DOMAIN conns : /\ conns[i].is_active
                                         /\ conns[i].platform = resp'.platform }
          /\ Len(resp'.connections)
                = Cardinality({ i \in DOMAIN conns :
                                  /\ conns[i].is_active
                                  /\ conns[i].platform = resp'.platform })
          /\ \A k \in 1..Len(resp'.connections) :
               resp'.connections[k].row = conns[resp'.connections[k].id]
     /\ RepoGetConnectionsNeedingTokenRefresh =>
          /\ { resp'.connections[k].id : k \in 1..Len(resp'.connections) }
                = { i \in DOMAIN conns :
                      /\ conns[i].is_active
                      /\ conns[i].token_expires_at - now <= resp'.withinMinutes }
          /\ Len(resp'.connections)
                = Cardinality({ i \in DOMAIN conns :
                      /\ conns[i].is_active
                      /\ conns[i].token_expires_at - now <= resp'.withinMinutes })
          /\ \A k \in 1..Len(resp'.connections) :
               resp'.connections[k].row = conns[resp'.connections[k].id]
     /\ \A p \in Callers :
          (RepoUpdate(p) /\ local[p].op = "disconnect" /\ resp'.kind = "done") =>
            /\ local[p].id \in DOMAIN conns'
            /\ ~conns'[local[p].id].is_active
     /\ RepoDeactivate =>
          \E id \in 1..nextConn :
            /\ DOMAIN conns' = DOMAIN conns
            /\ \A i \in DOMAIN conns \ {id} : conns'[i] = conns[i]
            /\ id \in DOMAIN conns => ~conns'[id].is_active
     /\ \A i \in DOMAIN conns :
          (~conns[i].is_active /\ i \in DOMAIN conns' /\ conns'[i].is_active) =>
            \E p \in Callers :
              /\ RepoUpdate(p)
              /\ local[p].op = "callback"
              /\ local[p].id = i
              /\ local[p].row.platform = conns[i].platform
              /\ local[p].row.shop_id = conns[i].shop_id]_vars

\* GetConnectionsNeedingTokenRefresh has answered without a deactivated
\* connection whose token expires within the minutes asked for.
C21_Witness ==
  /\ resp.kind = "needing refresh"
  /\ \E i \in DOMAIN conns :
       /\ ~conns[i].is_active
       /\ conns[i].token_expires_at <= now + resp.withinMinutes
       /\ \A k \in 1..Len(resp.connections) : resp.connections[k].id # i

====
